---- MODULE Spec2Model ----
(***************************************************************************)
(* Model of the pipeline orchestration substrate of agntics_ai:            *)
(*   utils/output_handler.py    OutputHandler (section-keyed document)     *)
(*   utils/timeline_tracker.py  TimelineTracker / TimelineManager          *)
(*   utils/session_manager.py   SessionManager (TTL + capacity eviction)   *)
(*   utils/persistence.py       JSONFilePersistence                        *)
(*   utils/connection_manager.py ConnectionManager                         *)
(*   control/control_agent.py   ControlAgent (start / finished_* )         *)
(*   control/control_api.py     HTTP entry points calling the above        *)
(*   agents/*.py                pull-consumer loops                        *)
(* Python dicts are functions whose DOMAIN is the set of keys present.     *)
(***************************************************************************)
EXTENDS Integers, Sequences, FiniteSets, TLC

\* ------------------------------------------------------------------ bounds
MaxSessionIds == 2
MaxTimeline == 3
MaxCtlTimeline == 5
MaxCtlSessions == 2
MaxCtlTime == 2
MaxCtlPending == 1
MaxTime == 5
MaxAdmit == 13
MaxAdmitCapacity == 12
MaxRegIds == 2
MaxCapacity == 1
MaxTtl == 2
MaxInterval == 1
MaxPending == 1
\* session ids are strings ("S1", "S2", ...)
SessionId(n) == "S" \o ToString(n)
SessionIds == {SessionId(n) : n \in 1..MaxSessionIds}
RegIds == {SessionId(n) : n \in 1..MaxRegIds}
CtlIds == {SessionId(n) : n \in 1..MaxCtlSessions}

\* --------------------------------------------------------------- variables
VARIABLES
    output_data,        \* OutputHandler.output_data : section key -> [id, data]
    output_file,        \* content of output.json as last written by save_to_file
    trackers,           \* TimelineManager._trackers : set of session ids
    files,              \* JSONFilePersistence : <<category, id>> -> saved data
    disk_ok,            \* whether writes to the data directory succeed
    last_op,            \* the operation performed by the last step
    \* ConnectionManager
    connections,        \* ConnectionManager._connections : key -> handler
    lock_holder,        \* ConnectionManager._lock : caller holding it (0 = free)
    lock_waiters,       \* callers suspended in _lock.acquire(), in FIFO order
    pc,                 \* position of each caller's coroutine
    caller_key,         \* connection_id argument of the caller's current call
    caller_handler,     \* NATSHandler the caller constructed (0 = none)
    caller_result,      \* handler returned to the caller (0 = none, -1 = raised)
    next_handler,       \* number of NATSHandler instances constructed so far
    connect_calls,      \* per key: number of handler.connect() invocations
    connect_failures,   \* per key: number of connect() calls that raised
    close_calls,        \* per key: number of handler.close() invocations
    live_handlers,      \* handlers that are connected and not closed
    \* SessionManager
    active_sessions,    \* SessionManager.active_sessions
    session_timestamps, \* SessionManager.session_timestamps, in insertion order
    max_sessions,       \* SessionManager.max_sessions
    session_ttl,        \* SessionManager.session_ttl
    cleanup_interval,   \* SessionManager.cleanup_interval
    running,            \* SessionManager.running (the sweep task was started)
    next_sweep,         \* time at which the sweep's asyncio.sleep returns
    cleanup_tasks,      \* _cleanup_oldest_sessions tasks created and not yet run
    clock,              \* time.time()
    \* ControlAgent
    nats_mode,          \* ControlAgent.nats_handler: "none", or the bus "up"/"down"
    published,          \* last payload published on agentAI.websoc
    \* pull-loop consumers (AnalysisAgent, RecommendationAgent) and the
    \* context agent's push callback
    agent_kind,         \* which consumer this is
    msg_kinds,          \* the messages on its input subject: id -> content
    msg_state,          \* id -> "pending" | "inflight" | "acked"
    deliveries,         \* id -> number of times the bus delivered it
    agent_running,      \* self.running
    agent_pc,           \* position of the loop
    agent_msg,          \* the message being handled (0: none)
    downstream,         \* ids whose derived payload was published
    \* get_llm_completion (one call)
    llm_pc,             \* "idle" | "attempt" | "sleep" | "returned" | "raised"
    llm_max_retries,    \* the max_retries argument
    llm_attempt,        \* loop variable attempt
    llm_responses,      \* what the endpoint answered to each request so far
    llm_last_exception, \* last_exception ("" = None)
    llm_wait,           \* argument of the pending asyncio.sleep
    llm_base_timeout,   \* llm_config.get('timeout', 60)
    llm_timeout,        \* total timeout of the last request made
    \* NATSHandler (one instance)
    nats_nc,            \* state of self.nc: "new" | "connected" | "closed"
    nats_js,            \* self.js is set
    nats_sent,          \* messages handed to the bus: [subject, data]
    bus_streams,        \* JetStream streams of the bus: name -> configuration
    \* GraphQLPublisher (the global instance) and the tasks queued for it
    graphql_mode,       \* "uninitialized" | "no_loop" | "no_transport" | "up" | "down"
    graphql_tasks,      \* publish coroutines created and not yet run
    graphql_sent,       \* mutation type of the last message published ("" = none)
    \* control_api.get_control_agent and the requests calling it
    control_agent,      \* the global _control_agent: 0 = None, n = the n-th instance
    control_agents_built, \* number of ControlAgent instances constructed
    control_lock_holder,  \* _control_agent_lock : request holding it (0 = free)
    control_lock_waiters, \* requests suspended in its acquire(), in FIFO order
    control_pc,         \* position of each request inside get_control_agent
    control_result,     \* instance returned to each request (0 = none yet)
    control_get_calls,  \* number of get_connection("control_agent", ...) calls
    sweep_starts        \* number of _cleanup_loop tasks start_cleanup_task created

outVars == <<output_data, output_file, trackers, files, disk_ok>>
connVars == <<connections, lock_holder, lock_waiters, pc, caller_key,
              caller_handler, caller_result, next_handler, connect_calls,
              connect_failures, close_calls, live_handlers>>
regVars == <<active_sessions, session_timestamps, max_sessions, session_ttl,
             cleanup_interval, running, next_sweep, cleanup_tasks, clock>>
regParams == <<max_sessions, session_ttl, cleanup_interval, running>>
ctlVars == <<nats_mode, published>>
consVars == <<agent_kind, msg_kinds, msg_state, deliveries, agent_running,
              agent_pc, agent_msg, downstream>>
llmVars == <<llm_pc, llm_max_retries, llm_attempt, llm_responses,
             llm_last_exception, llm_wait, llm_base_timeout, llm_timeout>>
natsVars == <<nats_nc, nats_js, nats_sent, bus_streams>>
gqlVars == <<graphql_mode, graphql_tasks, graphql_sent>>
apiVars == <<control_agent, control_agents_built, control_lock_holder,
             control_lock_waiters, control_pc, control_result,
             control_get_calls, sweep_starts>>
vars == <<outVars, connVars, regVars, ctlVars, consVars, llmVars, natsVars,
          gqlVars, apiVars, last_op>>

\* the variables an operation of one component leaves alone
notOut == <<connVars, regVars, ctlVars, consVars, llmVars, natsVars, gqlVars,
           apiVars>>
notConn == <<outVars, regVars, ctlVars, consVars, llmVars, natsVars, gqlVars,
           apiVars>>
notReg == <<connVars, ctlVars, consVars, llmVars, natsVars, gqlVars,
           apiVars>>
notCtl == <<connVars, consVars, llmVars, natsVars, gqlVars,
           apiVars>>
notCons == <<connVars, regVars, nats_mode, disk_ok, llmVars, natsVars, gqlVars,
           apiVars>>
notLlm == <<outVars, connVars, regVars, ctlVars, consVars, natsVars, gqlVars,
           apiVars>>
notNats == <<outVars, connVars, regVars, ctlVars, consVars, llmVars, gqlVars,
           apiVars>>
notSections == <<connVars, regVars, ctlVars, consVars, llmVars, natsVars,
                 apiVars>>

\* ------------------------------------------------- timeline_tracker enums
\* class TimelineStatus(Enum)
TimelineStatus ==
    [SUCCESS |-> "success", ERROR |-> "error",
     IN_PROGRESS |-> "in_progress", PENDING |-> "pending"]

\* class TimelineStage(Enum): member name -> value
TimelineStageComplete ==
    [RECEIVED_ALERT |-> "Received Alert",
     TYPE_AGENT |-> "Type Agent",
     ANALYZE_ROOT_CAUSE |-> "Analyze Root Cause",
     TRIAGE_STATUS |-> "Triage Status",
     ACTION_TAKEN |-> "Action Taken",
     TOOL_STATUS |-> "Tool Status",
     RECOMMENDATION |-> "Recommendation",
     PROCESS_COMPLETE |-> "Process Complete"]
TimelineStage ==
    [RECEIVED_ALERT |-> "Received Alert",
     INPUT_AGENT |-> "Input Agent",
     ANALYSIS_AGENT |-> "Analysis Agent",
     RECOMMENDATION_AGENT |-> "Recommendation Agent",
     OUTPUT_GENERATED |-> "Output Generated",
     PROCESS_COMPLETE |-> "Process Complete"]

\* TimelineStage.<member> : attribute access raises AttributeError when the
\* enum has no such member
HasStage(member) == member \in DOMAIN TimelineStage

\* ---------------------------------------------------------- OutputHandler
KeyOverview == "agentAI.overview.updated"
KeyTools == "agentAI.tools.updated"
KeyRecommendation == "agentAI.recommendation.updated"
KeyChecklist == "agentAI.checklist.updated"
KeyExecutive == "agentAI.executive.updated"
KeyAttack == "agentAI.attack.updated"
KeyTimeline == "agentAI.timeline.updated"

\* dict assignment d[k] = v
DictSet(d, k, v) == (k :> v) @@ d

\* OutputHandler._initialize_output_structure
InitializeOutputStructure == <<>>

\* the list stored under the timeline key ([] when the key is absent)
TimelineData(od) ==
    IF KeyTimeline \in DOMAIN od THEN od[KeyTimeline].data ELSE <<>>

\* OutputHandler.add_timeline_entry
AddTimelineEntryReplacing(od, session_id, stage, status, error_message) ==
    DictSet(od, KeyTimeline,
            [id |-> session_id,
             data |-> <<[stage |-> stage, status |-> status,
                         errorMessage |-> error_message]>>])

AddTimelineEntry(od, session_id, stage, status, error_message) ==
    LET new_entry == [stage |-> stage, status |-> status,
                      errorMessage |-> error_message]
        base == IF KeyTimeline \notin DOMAIN od
                THEN DictSet(od, KeyTimeline, [id |-> session_id, data |-> <<>>])
                ELSE od
    IN  [base EXCEPT ![KeyTimeline].data = Append(@, new_entry)]

\* OutputHandler.update_overview
UpdateOverview(od, session_id, description) ==
    DictSet(od, KeyOverview,
            [id |-> session_id, data |-> [description |-> description]])

\* OutputHandler.update_tools_status
UpdateToolsStatus(od, session_id, tools) ==
    DictSet(od, KeyTools, [id |-> session_id, data |-> tools])

\* OutputHandler.update_recommendation
UpdateRecommendation(od, session_id, description, content) ==
    DictSet(od, KeyRecommendation,
            [id |-> session_id,
             data |-> <<[description |-> description, content |-> content]>>])

\* OutputHandler.update_checklist
UpdateChecklist(od, session_id, title, content) ==
    DictSet(od, KeyChecklist,
            [id |-> session_id,
             data |-> <<[title |-> title, content |-> content]>>])

\* OutputHandler.update_executive_summary
UpdateExecutiveSummary(od, session_id, title, content) ==
    DictSet(od, KeyExecutive,
            [id |-> session_id,
             data |-> <<[title |-> title, content |-> content]>>])

\* OutputHandler.update_attack_mapping
UpdateAttackMapping(od, session_id, tactics) ==
    DictSet(od, KeyAttack, [id |-> session_id, data |-> tactics])

\* OutputHandler.clear_session_data
ClearSessionDataKeepingAll(od, session_id) == od

ClearSessionData(od, session_id) ==
    LET keys_to_remove == {k \in DOMAIN od : od[k].id = session_id}
    IN  [k \in (DOMAIN od) \ keys_to_remove |-> od[k]]

\* The sections of the in-memory document that belong to a session
\* (the sections whose "id" is that session)
DocumentOf(od, session_id) ==
    [k \in {x \in DOMAIN od : od[x].id = session_id} |-> od[k].data]

\* ------------------------------------------------ store threaded by calls
\* st = [od, file, trackers, fs, pub]: the output handler's dict, output.json,
\* the tracker cache, the persisted artifacts and the last published payload,
\* as left by the calls made so far inside one handler
Store == [od |-> output_data, file |-> output_file, trackers |-> trackers,
          fs |-> files, pub |-> published]

\* OutputHandler.save_to_file ; io_ok = the write succeeded
SaveToFile(st, io_ok) ==
    IF io_ok THEN [st EXCEPT !.file = st.od] ELSE st

\* TimelineTracker.add_entry (exceptions of the save are logged and swallowed)
AddEntry(st, session_id, stage_name, status_value, error_message, io_ok) ==
    SaveToFile([st EXCEPT !.od = AddTimelineEntry(st.od, session_id, stage_name,
                                                  status_value, error_message)],
               io_ok)

\* TimelineManager.get_tracker + TimelineTracker.__init__
GetTracker(st, session_id, io_ok) ==
    IF session_id \notin st.trackers
    THEN AddEntry([st EXCEPT !.trackers = @ \cup {session_id}], session_id,
                  TimelineStage.RECEIVED_ALERT, TimelineStatus.SUCCESS, "", io_ok)
    ELSE st

\* number of entries a call to get_tracker appends
TrackerInitEntries(session_id) == IF session_id \in trackers THEN 0 ELSE 1

\* assign the store back to the variables
Commit(st) ==
    /\ output_data' = st.od
    /\ output_file' = st.file
    /\ trackers' = st.trackers

NoArg == [kind |-> "none"]
Op(name, sid) ==
    [name |-> name, sid |-> sid, arg |-> NoArg, result |-> "", removed |-> {},
     redelivered |-> FALSE]
\* an API call; redelivered = it repeats the call before it
OpA(name, sid, arg, result) ==
    [name |-> name, sid |-> sid, arg |-> arg, result |-> result,
     removed |-> {},
     redelivered |-> (last_op.name = name /\ last_op.sid = sid
                      /\ last_op.arg = arg)]
OpRemoved(name, sid, removed) ==
    [name |-> name, sid |-> sid, arg |-> NoArg, result |-> "",
     removed |-> removed, redelivered |-> FALSE]

\* ------------------------------------------------------ ConnectionManager
MaxCallers == 2
MaxHandlers == 2
Callers == 1..MaxCallers
ConnKeys == {"x", "y"}

ConnInit ==
    /\ connections = <<>>
    /\ lock_holder = 0
    /\ lock_waiters = <<>>
    /\ pc = [c \in Callers |-> "idle"]
    /\ caller_key = [c \in Callers |-> "x"]
    /\ caller_handler = [c \in Callers |-> 0]
    /\ caller_result = [c \in Callers |-> 0]
    /\ next_handler = 0
    /\ connect_calls = [k \in ConnKeys |-> 0]
    /\ connect_failures = [k \in ConnKeys |-> 0]
    /\ close_calls = [k \in ConnKeys |-> 0]
    /\ live_handlers = {}

\* asyncio.Lock.acquire: returns at once when the lock is free and nobody is
\* queued; the lock is handed to queued callers in FIFO order
CanAcquireUnlocked(c) == TRUE

CanAcquire(c) ==
    /\ lock_holder = 0
    /\ lock_waiters = <<>> \/ Head(lock_waiters) = c

\* the part of get_connection that runs once the lock is held, up to the
\* first suspension (await handler.connect()) or the return
GetConnectionLocked(c, key) ==
    IF key \notin DOMAIN connections
    THEN /\ next_handler < MaxHandlers
         /\ next_handler' = next_handler + 1
         /\ caller_handler' = [caller_handler EXCEPT ![c] = next_handler + 1]
         /\ connect_calls' = [connect_calls EXCEPT ![key] = @ + 1]
         /\ lock_holder' = c
         /\ pc' = [pc EXCEPT ![c] = "connecting"]
         /\ caller_result' = [caller_result EXCEPT ![c] = 0]
    ELSE /\ caller_result' = [caller_result EXCEPT ![c] = connections[key]]
         /\ lock_holder' = 0
         /\ pc' = [pc EXCEPT ![c] = "done"]
         /\ UNCHANGED <<next_handler, caller_handler, connect_calls>>

\* the part of close_connection that runs once the lock is held
CloseConnectionLocked(c, key) ==
    IF key \in DOMAIN connections
    THEN /\ close_calls' = [close_calls EXCEPT ![key] = @ + 1]
         /\ lock_holder' = c
         /\ pc' = [pc EXCEPT ![c] = "closing"]
    ELSE /\ lock_holder' = 0
         /\ pc' = [pc EXCEPT ![c] = "done"]
         /\ UNCHANGED close_calls

\* a caller enters get_connection(connection_id, nats_config)
CallGetConnection(c, key) ==
    /\ pc[c] \in {"idle", "done"}
    /\ caller_key' = [caller_key EXCEPT ![c] = key]
    /\ IF CanAcquire(c)
       THEN /\ GetConnectionLocked(c, key)
            /\ UNCHANGED lock_waiters
       ELSE /\ lock_waiters' = Append(lock_waiters, c)
            /\ pc' = [pc EXCEPT ![c] = "wait_get"]
            /\ caller_result' = [caller_result EXCEPT ![c] = 0]
            /\ UNCHANGED <<lock_holder, next_handler, caller_handler,
                           connect_calls>>
    /\ last_op' = Op("get_connection", "")
    /\ UNCHANGED <<connections, connect_failures, close_calls, live_handlers,
                   notConn>>

\* a queued caller of get_connection is handed the lock
ResumeGetConnection(c) ==
    /\ pc[c] = "wait_get"
    /\ CanAcquire(c)
    /\ lock_waiters # <<>> /\ Head(lock_waiters) = c
    /\ lock_waiters' = Tail(lock_waiters)
    /\ GetConnectionLocked(c, caller_key[c])
    /\ last_op' = Op("get_connection_resumed", "")
    /\ UNCHANGED <<connections, caller_key, connect_failures, close_calls,
                   live_handlers, notConn>>

\* await handler.connect() returns: the handler is stored and returned
ConnectSucceeds(c) ==
    /\ pc[c] = "connecting"
    /\ connections' = DictSet(connections, caller_key[c], caller_handler[c])
    /\ live_handlers' = live_handlers \cup {caller_handler[c]}
    /\ caller_result' = [caller_result EXCEPT ![c] = caller_handler[c]]
    /\ lock_holder' = 0
    /\ pc' = [pc EXCEPT ![c] = "done"]
    /\ caller_handler' = [caller_handler EXCEPT ![c] = 0]
    /\ last_op' = Op("connect_ok", "")
    /\ UNCHANGED <<lock_waiters, caller_key, next_handler,
                   connect_calls, connect_failures, close_calls, notConn>>

\* await handler.connect() raises: the exception leaves get_connection,
\* "async with" releases the lock, nothing is stored.  The variant stores the
\* handler before it connects.
ConnectFailsKeepingHandler(c) ==
    /\ pc[c] = "connecting"
    /\ connections' = DictSet(connections, caller_key[c], caller_handler[c])
    /\ connect_failures' = [connect_failures EXCEPT ![caller_key[c]] = @ + 1]
    /\ caller_result' = [caller_result EXCEPT ![c] = -1]
    /\ lock_holder' = 0
    /\ pc' = [pc EXCEPT ![c] = "done"]
    /\ caller_handler' = [caller_handler EXCEPT ![c] = 0]
    /\ last_op' = Op("connect_failed", "")
    /\ UNCHANGED <<lock_waiters, caller_key,
                   next_handler, connect_calls, close_calls, live_handlers,
                   notConn>>

ConnectFails(c) ==
    /\ pc[c] = "connecting"
    /\ connect_failures' = [connect_failures EXCEPT ![caller_key[c]] = @ + 1]
    /\ caller_result' = [caller_result EXCEPT ![c] = -1]
    /\ lock_holder' = 0
    /\ pc' = [pc EXCEPT ![c] = "done"]
    /\ caller_handler' = [caller_handler EXCEPT ![c] = 0]
    /\ last_op' = Op("connect_failed", "")
    /\ UNCHANGED <<connections, lock_waiters, caller_key,
                   next_handler, connect_calls, close_calls, live_handlers,
                   notConn>>

\* a caller enters close_connection(connection_id)
CallCloseConnection(c, key) ==
    /\ pc[c] \in {"idle", "done"}
    /\ caller_key' = [caller_key EXCEPT ![c] = key]
    /\ caller_result' = [caller_result EXCEPT ![c] = 0]
    /\ IF CanAcquire(c)
       THEN /\ CloseConnectionLocked(c, key)
            /\ UNCHANGED lock_waiters
       ELSE /\ lock_waiters' = Append(lock_waiters, c)
            /\ pc' = [pc EXCEPT ![c] = "wait_close"]
            /\ UNCHANGED <<lock_holder, close_calls>>
    /\ last_op' = Op("close_connection", "")
    /\ UNCHANGED <<connections, caller_handler, next_handler, connect_calls,
                   connect_failures, live_handlers, notConn>>

\* a queued caller of close_connection is handed the lock
ResumeCloseConnection(c) ==
    /\ pc[c] = "wait_close"
    /\ CanAcquire(c)
    /\ lock_waiters # <<>> /\ Head(lock_waiters) = c
    /\ lock_waiters' = Tail(lock_waiters)
    /\ CloseConnectionLocked(c, caller_key[c])
    /\ last_op' = Op("close_connection", "")
    /\ UNCHANGED <<connections, caller_key, caller_handler, caller_result,
                   next_handler, connect_calls, connect_failures,
                   live_handlers, notConn>>

\* await handler.close() returns (NATSHandler.close swallows drain errors):
\* the entry is deleted and the lock released
CloseFinishes(c) ==
    /\ pc[c] = "closing"
    /\ live_handlers' = live_handlers \ {connections[caller_key[c]]}
    /\ connections' = [k \in (DOMAIN connections) \ {caller_key[c]} |->
                         connections[k]]
    /\ lock_holder' = 0
    /\ pc' = [pc EXCEPT ![c] = "done"]
    /\ last_op' = Op("close_done", "")
    /\ UNCHANGED <<lock_waiters, caller_key, caller_handler, caller_result,
                   next_handler, connect_calls, connect_failures, close_calls,
                   notConn>>

ConnNext ==
    \/ \E c \in Callers, k \in ConnKeys : CallGetConnection(c, k)
    \/ \E c \in Callers : ResumeGetConnection(c)
    \/ \E c \in Callers : ConnectSucceeds(c)
    \/ \E c \in Callers : ConnectFails(c)
    \/ \E c \in Callers, k \in ConnKeys : CallCloseConnection(c, k)
    \/ \E c \in Callers : ResumeCloseConnection(c)
    \/ \E c \in Callers : CloseFinishes(c)


\* await handler.close() returns after nc.drain() raised: NATSHandler.close
\* logs the error and returns, the entry is deleted all the same
CloseFinishesDrainFailed(c) ==
    /\ pc[c] = "closing"
    /\ connections' = [k \in (DOMAIN connections) \ {caller_key[c]} |->
                         connections[k]]
    /\ lock_holder' = 0
    /\ pc' = [pc EXCEPT ![c] = "done"]
    /\ last_op' = Op("close_done", "")
    /\ UNCHANGED <<lock_waiters, caller_key, caller_handler, caller_result,
                   next_handler, connect_calls, connect_failures, close_calls,
                   live_handlers, notConn>>

\* the part of close_all_connections that runs once the lock is held, up to
\* the first await handler.close(); every registered handler will be closed
CloseAllLocked(c) ==
    /\ close_calls' = [k \in ConnKeys |->
                         IF k \in DOMAIN connections THEN close_calls[k] + 1
                         ELSE close_calls[k]]
    /\ lock_holder' = c
    /\ pc' = [pc EXCEPT ![c] = "closing_all"]

\* a caller enters close_all_connections()
CallCloseAll(c) ==
    /\ pc[c] \in {"idle", "done"}
    /\ caller_result' = [caller_result EXCEPT ![c] = 0]
    /\ IF CanAcquire(c)
       THEN /\ CloseAllLocked(c)
            /\ UNCHANGED lock_waiters
       ELSE /\ lock_waiters' = Append(lock_waiters, c)
            /\ pc' = [pc EXCEPT ![c] = "wait_close_all"]
            /\ UNCHANGED <<lock_holder, close_calls>>
    /\ last_op' = Op("close_all_connections", "")
    /\ UNCHANGED <<connections, caller_key, caller_handler, next_handler,
                   connect_calls, connect_failures, live_handlers, notConn>>

\* a queued caller of close_all_connections is handed the lock
ResumeCloseAll(c) ==
    /\ pc[c] = "wait_close_all"
    /\ CanAcquire(c)
    /\ lock_waiters # <<>> /\ Head(lock_waiters) = c
    /\ lock_waiters' = Tail(lock_waiters)
    /\ CloseAllLocked(c)
    /\ last_op' = Op("close_all_connections", "")
    /\ UNCHANGED <<connections, caller_key, caller_handler, caller_result,
                   next_handler, connect_calls, connect_failures,
                   live_handlers, notConn>>

\* self._connections.clear() after the loop, whatever the closes did
ClearedConnectionsKeepingFailed(conns, failed) ==
    [k \in failed |-> conns[k]]
ClearedConnections(conns, failed) == <<>>

\* the loop over the handlers has awaited every close(); the closes of the
\* keys in failed did not drain their connection (the error is logged by
\* NATSHandler.close, or by the loop's except); then the registry is cleared
CloseAllFinishes(c, failed) ==
    /\ pc[c] = "closing_all"
    /\ failed \subseteq DOMAIN connections
    /\ live_handlers' = live_handlers \
                          {connections[k] : k \in (DOMAIN connections) \ failed}
    /\ connections' = ClearedConnections(connections, failed)
    /\ lock_holder' = 0
    /\ pc' = [pc EXCEPT ![c] = "done"]
    /\ last_op' = OpRemoved("close_all_done", "", DOMAIN connections)
    /\ UNCHANGED <<lock_waiters, caller_key, caller_handler, caller_result,
                   next_handler, connect_calls, connect_failures, close_calls,
                   notConn>>

\* the manager with close_all_connections and closes that fail to drain
CloseNext ==
    \/ ConnNext
    \/ \E c \in Callers : CloseFinishesDrainFailed(c)
    \/ \E c \in Callers : CallCloseAll(c)
    \/ \E c \in Callers : ResumeCloseAll(c)
    \/ \E c \in Callers, failed \in SUBSET ConnKeys : CloseAllFinishes(c, failed)

\* --------------------------------------------------------- SessionManager
\* sessions_to_remove = len(active_sessions) - max_sessions + 10
EvictBuffer == 10

RegInit ==
    /\ active_sessions = {}
    /\ session_timestamps = <<>>
    /\ cleanup_tasks = 0
    /\ clock = 0

\* keys of the session_timestamps dict
TimestampKeys(tsq) == {tsq[i].sid : i \in 1..Len(tsq)}

\* session_timestamps[session_id]
TimestampOf(tsq, session_id) ==
    (CHOOSE e \in {tsq[i] : i \in 1..Len(tsq)} : e.sid = session_id).ts

\* session_timestamps[session_id] = t  (an existing key keeps its position)
TimestampSet(tsq, session_id, t) ==
    IF session_id \in TimestampKeys(tsq)
    THEN [i \in 1..Len(tsq) |->
            IF tsq[i].sid = session_id THEN [sid |-> session_id, ts |-> t]
            ELSE tsq[i]]
    ELSE Append(tsq, [sid |-> session_id, ts |-> t])

\* del session_timestamps[session_id]
TimestampDel(tsq, session_id) ==
    SelectSeq(tsq, LAMBDA e : e.sid # session_id)

\* sorted(session_timestamps.items(), key=lambda x: x[1]) : stable, oldest first
RECURSIVE InsertByTs(_, _)
InsertByTs(sorted, e) ==
    IF sorted = <<>> THEN <<e>>
    ELSE IF sorted[Len(sorted)].ts <= e.ts THEN Append(sorted, e)
    ELSE Append(InsertByTs(SubSeq(sorted, 1, Len(sorted) - 1), e),
                sorted[Len(sorted)])

RECURSIVE SortedSessions(_)
SortedSessions(tsq) ==
    IF tsq = <<>> THEN <<>>
    ELSE InsertByTs(SortedSessions(SubSeq(tsq, 1, Len(tsq) - 1)), tsq[Len(tsq)])

\* rg = [active, ts, od]: active_sessions, session_timestamps and the output
\* handler's dict as left by the calls made so far inside one handler
Registry == [active |-> active_sessions, ts |-> session_timestamps,
             od |-> output_data]

\* SessionManager.remove_session (with _cleanup_session_data)
RemoveSessionKeepingTimestamp(rg, session_id) ==
    [active |-> rg.active \ {session_id},
     ts |-> rg.ts,
     od |-> ClearSessionData(rg.od, session_id)]
RemoveSession(rg, session_id) ==
    [active |-> rg.active \ {session_id},
     ts |-> TimestampDel(rg.ts, session_id),
     od |-> ClearSessionData(rg.od, session_id)]

\* for session_id in <list>: self.remove_session(session_id)
RECURSIVE RemoveSessions(_, _)
RemoveSessions(rg, ids) ==
    IF ids = <<>> THEN rg
    ELSE RemoveSessions(RemoveSession(rg, Head(ids)), Tail(ids))

\* SessionManager._cleanup_expired_sessions: the expired ids, in dict order
ExpiredSessionsLate(tsq, current_time, ttl) ==
    LET expired == SelectSeq(tsq, LAMBDA e : current_time - e.ts > ttl + 1)
    IN  [i \in 1..Len(expired) |-> expired[i].sid]

ExpiredSessions(tsq, current_time, ttl) ==
    LET expired == SelectSeq(tsq, LAMBDA e : current_time - e.ts > ttl)
    IN  [i \in 1..Len(expired) |-> expired[i].sid]

\* SessionManager._cleanup_oldest_sessions: number of sessions to remove
SessionsToRemoveNoBuffer(n_active, max) == n_active - max - 1

SessionsToRemove(n_active, max) == n_active - max + EvictBuffer

\* SessionManager._cleanup_oldest_sessions(immediate=True): the removed ids
OldestSessions(rg, max) ==
    LET sorted_sessions == SortedSessions(rg.ts)
        sessions_to_remove == SessionsToRemove(Cardinality(rg.active), max)
        n == IF sessions_to_remove <= 0 THEN 0
             ELSE IF sessions_to_remove >= Len(sorted_sessions)
                  THEN Len(sorted_sessions)
                  ELSE sessions_to_remove
    IN  [i \in 1..n |-> sorted_sessions[i].sid]

\* SessionManager.add_session: the registry part
AddSessionRegAtCapacity(session_id) ==
    /\ active_sessions' = active_sessions \cup {session_id}
    /\ session_timestamps' = TimestampSet(session_timestamps, session_id, clock)
    /\ cleanup_tasks' =
         IF Cardinality(active_sessions \cup {session_id}) >= max_sessions
         THEN cleanup_tasks + 1 ELSE cleanup_tasks
AddSessionReg(session_id) ==
    /\ active_sessions' = active_sessions \cup {session_id}
    /\ session_timestamps' = TimestampSet(session_timestamps, session_id, clock)
    /\ cleanup_tasks' =
         IF Cardinality(active_sessions \cup {session_id}) > max_sessions
         THEN cleanup_tasks + 1 ELSE cleanup_tasks

\* if session_id in self.active_sessions
IsTrackedAlways(session_id) == TRUE

IsTracked(session_id) == session_id \in active_sessions

\* SessionManager.update_session: the registry part
UpdateSessionRegNoRefresh(session_id) ==
    session_timestamps' = session_timestamps
UpdateSessionReg(session_id) ==
    session_timestamps' =
        IF IsTracked(session_id)
        THEN TimestampSet(session_timestamps, session_id, clock)
        ELSE session_timestamps

\* SessionManager.add_session
AddSession(s) ==
    /\ Cardinality(active_sessions \cup {s}) > max_sessions
         => cleanup_tasks < MaxPending
    /\ AddSessionReg(s)
    /\ last_op' = Op("add_session", s)
    /\ UNCHANGED <<regParams, next_sweep, clock, outVars, notReg>>

\* SessionManager.update_session
UpdateSession(s) ==
    /\ UpdateSessionReg(s)
    /\ last_op' = Op("update_session", s)
    /\ UNCHANGED <<active_sessions, cleanup_tasks, regParams, next_sweep, clock,
                   outVars, notReg>>

\* SessionManager.remove_session
RemoveSessionCall(s) ==
    /\ LET rg == RemoveSession(Registry, s)
       IN  /\ active_sessions' = rg.active
           /\ session_timestamps' = rg.ts
           /\ output_data' = rg.od
    /\ last_op' = OpRemoved("remove_session", s, {s})
    /\ UNCHANGED <<cleanup_tasks, regParams, next_sweep, clock, output_file,
                   trackers, files, disk_ok, notReg>>

\* one iteration of SessionManager._cleanup_loop: asyncio.sleep(cleanup_interval)
\* has returned and _cleanup_expired_sessions runs
CleanupLoopSweep ==
    /\ running
    /\ clock = next_sweep
    /\ LET expired == ExpiredSessions(session_timestamps, clock, session_ttl)
           rg == RemoveSessions(Registry, expired)
       IN  /\ active_sessions' = rg.active
           /\ session_timestamps' = rg.ts
           /\ output_data' = rg.od
    /\ next_sweep' = clock + cleanup_interval
    /\ last_op' = OpRemoved("cleanup_expired_sessions", "",
                            active_sessions \ active_sessions')
    /\ UNCHANGED <<cleanup_tasks, regParams, clock, output_file, trackers,
                   files, disk_ok, notReg>>

\* a task created by add_session runs _cleanup_oldest_sessions(immediate=True)
CleanupOldestTask ==
    /\ cleanup_tasks > 0
    /\ cleanup_tasks' = cleanup_tasks - 1
    /\ LET rg == RemoveSessions(Registry, OldestSessions(Registry, max_sessions))
       IN  /\ active_sessions' = rg.active
           /\ session_timestamps' = rg.ts
           /\ output_data' = rg.od
    /\ last_op' = OpRemoved("cleanup_oldest_sessions", "",
                            active_sessions \ active_sessions')
    /\ UNCHANGED <<regParams, next_sweep, clock, output_file, trackers, files,
                   disk_ok, notReg>>

\* time passes; the sweep's sleep returns when its interval has elapsed
Advance(horizon) ==
    /\ clock < horizon
    /\ running => clock < next_sweep
    /\ clock' = clock + 1
    /\ last_op' = Op("tick", "")
    /\ UNCHANGED <<active_sessions, session_timestamps, cleanup_tasks,
                   regParams, next_sweep, outVars, notReg>>

Tick == Advance(MaxTime)

CtlTick == Advance(MaxCtlTime)

\* ---------------------------------------------------- JSONFilePersistence
\* JSONFilePersistence.save_alert (write failures are logged and swallowed)
SaveAlert(fs, alert_id, alert_data, now, io_ok) ==
    IF io_ok
    THEN DictSet(fs, <<"alerts", alert_id>>,
                 [id |-> alert_id, timestamp |-> now, data |-> alert_data])
    ELSE fs

\* JSONFilePersistence.save_analysis
SaveAnalysis(fs, session_id, analysis_data, now, io_ok) ==
    IF io_ok
    THEN DictSet(fs, <<"analyses", session_id>>,
                 [id |-> session_id, timestamp |-> now, data |-> analysis_data])
    ELSE fs

\* JSONFilePersistence.save_report
SaveReport(fs, session_id, report_data, now, io_ok) ==
    IF io_ok
    THEN DictSet(fs, <<"reports", session_id>>,
                 [id |-> session_id, timestamp |-> now, data |-> report_data])
    ELSE fs

\* JSONFilePersistence.save_session_data
SaveSessionData(fs, session_id, session_data, now, io_ok) ==
    IF io_ok
    THEN DictSet(fs, <<"sessions", session_id>>,
                 [id |-> session_id, timestamp |-> now, data |-> session_data])
    ELSE fs

\* ------------------------------------------------------------ ControlAgent
\* class WorkflowStage(Enum)
WorkflowStage ==
    [RECEIVED_ALERT |-> 1, TYPE_AGENT |-> 2, ANALYZE_ROOT_CAUSE |-> 3,
     TRIAGE_STATUS |-> 4, ACTION_TAKEN |-> 5, TOOL_STATUS |-> 6,
     RECOMMENDATION |-> 7]

\* stage_names of ControlAgent._build_timeline_payload
StageNames ==
    <<"Received Alert", "Type Agent", "Analyze Root Cause", "Triage Status",
      "Action Taken", "Tool Status", "Recommendation">>

NoPayload == [alert_id |-> "", data |-> <<>>]

\* a builder that marks every stage with the error
BuildTimelinePayloadAllError(case, session_id, error) ==
    [alert_id |-> session_id,
     data |-> [i \in 1..(IF case > Len(StageNames) THEN Len(StageNames)
                         ELSE case) |->
                 [stage |-> StageNames[i],
                  status |-> IF error # "" THEN "error" ELSE "success",
                  errorMessage |-> error]]]
\* ControlAgent._build_timeline_payload (alert_id and data of the returned
\* dict; a stage number without a name is skipped)
BuildTimelinePayload(case, session_id, error) ==
    IF case = 0 THEN [alert_id |-> session_id, data |-> <<>>]
    ELSE [alert_id |-> session_id,
          data |-> [i \in 1..(IF case > Len(StageNames) THEN Len(StageNames)
                              ELSE case) |->
                      IF i = case /\ error # ""
                      THEN [stage |-> StageNames[i], status |-> "error",
                            errorMessage |-> error]
                      ELSE [stage |-> StageNames[i], status |-> "success",
                            errorMessage |-> ""]]]

\* ControlAgent/control/timeline.py build_timeline_payload: the loop
\* for i in range(i, case + 1) appending to timeline_data
RECURSIVE LegacyTimelineData(_, _, _, _)
LegacyTimelineData(i, case, error, timeline_data) ==
    IF i > case THEN timeline_data
    ELSE IF i > Len(StageNames)
    THEN LegacyTimelineData(i + 1, case, error, timeline_data)
    ELSE IF i = case /\ error # ""
    THEN LegacyTimelineData(i + 1, case, error,
             Append(timeline_data, [stage |-> StageNames[i], status |-> "error",
                                    errorMessage |-> error]))
    ELSE LegacyTimelineData(i + 1, case, error,
             Append(timeline_data, [stage |-> StageNames[i],
                                    status |-> "success", errorMessage |-> ""]))

\* build_timeline_payload(case, error, alertid): the returned dict, with
\* "agent.timeline.updated" as the field updated
LegacyBuildTimelinePayload(case, error, alertid) ==
    IF case = 0 THEN [alert_id |-> alertid, updated |-> [data |-> <<>>]]
    ELSE [updated |-> [alert_id |-> alertid,
                       data |-> LegacyTimelineData(1, case, error, <<>>)]]

\* both builders called with the same inputs
BuildPayloads(case, session_id, error) ==
    /\ published' = BuildTimelinePayload(case, session_id, error)
    /\ last_op' = OpA("build_timeline_payload", session_id,
                      [case |-> case, error |-> error,
                       legacy |-> LegacyBuildTimelinePayload(case, error,
                                                             session_id)],
                      "returned")
    /\ UNCHANGED <<nats_mode, outVars, regVars, notCtl>>

\* ControlAgent._publish_timeline_update of an agent whose self.nats_handler is
\* nats_handler ("none", or a handler on a bus that is "up" or "down"): skipped
\* without a handler; a failed publish is logged and swallowed.  The variant
\* records the failed publish in the session's timeline.
PublishTimelineUpdateRecordingFailure(nats_handler, st, session_id, stage, error) ==
    IF nats_handler = "up"
    THEN [st EXCEPT !.pub = BuildTimelinePayload(WorkflowStage[stage],
                                                  session_id, error)]
    ELSE IF nats_handler = "down"
    THEN AddEntry(GetTracker(st, session_id, disk_ok), session_id,
                  TimelineStage.PROCESS_COMPLETE, TimelineStatus.ERROR,
                  "publish failed", disk_ok)
    ELSE st

PublishTimelineUpdateWith(nats_handler, st, session_id, stage, error) ==
    IF nats_handler = "up"
    THEN [st EXCEPT !.pub = BuildTimelinePayload(WorkflowStage[stage],
                                                  session_id, error)]
    ELSE st

\* str(e) of the AttributeError raised by TimelineStage.<member>
AttributeErrorText(member) == member

\* str(e) of the OSError raised by a failed write of output.json
WriteErrorText == "write failed"

\* the members ControlAgent._handle_error names in timeline_stage_map
StageMapMembers ==
    {"RECEIVED_ALERT", "TYPE_AGENT", "ANALYZE_ROOT_CAUSE", "TRIAGE_STATUS",
     "ACTION_TAKEN", "TOOL_STATUS", "RECOMMENDATION"}

\* ToolsMonitor.update_output: tools section, then save (errors swallowed)
ToolsData == <<>>

UpdateOutput(st, session_id) ==
    SaveToFile([st EXCEPT !.od = UpdateToolsStatus(st.od, session_id, ToolsData)],
               disk_ok)

\* ControlAgent._handle_error: an exception inside it is logged and swallowed
HandleErrorWith(nats_handler, st, session_id, stage, error_msg) ==
    LET st1 == GetTracker(st, session_id, disk_ok)
    IN  IF \E m \in StageMapMembers : ~HasStage(m)
        THEN st1
        ELSE
          LET st2 == AddEntry(st1, session_id, TimelineStage[stage],
                              TimelineStatus.ERROR, error_msg, disk_ok)
              st3 == AddEntry(st2, session_id, TimelineStage.PROCESS_COMPLETE,
                              TimelineStatus.ERROR,
                              "Processing failed at " \o stage \o ": " \o error_msg,
                              disk_ok)
              st4 == [st3 EXCEPT !.od = UpdateExecutiveSummary(
                          st3.od, session_id, "Processing Error - " \o stage,
                          "An error occurred during " \o stage \o ": " \o error_msg)]
          IN  IF disk_ok
              THEN PublishTimelineUpdateWith(nats_handler, SaveToFile(st4, TRUE),
                                             session_id, stage, error_msg)
              ELSE st4

\* ControlAgent.start_flow: [st, result]
StartFlowWith(nats_handler, st, alert_data, session_id) ==
    LET st1 == GetTracker(st, session_id, disk_ok)
        st2 == AddEntry(st1, session_id, TimelineStage.RECEIVED_ALERT,
                        TimelineStatus.SUCCESS, "", disk_ok)
        alert_id == IF "alert_id" \in DOMAIN alert_data THEN alert_data.alert_id
                    ELSE "alert_" \o session_id
        st3 == [st2 EXCEPT !.fs = SaveAlert(st2.fs, alert_id, alert_data,
                                            clock, disk_ok)]
        st4 == [st3 EXCEPT !.od = UpdateOverview(
                    st3.od, session_id, "Alert received and processing started")]
        st5 == UpdateOutput(st4, session_id)
        st6 == PublishTimelineUpdateWith(nats_handler, st5, session_id,
                                         "RECEIVED_ALERT", "")
    IN  [st |-> st6, result |-> "success"]

\* ControlAgent.finished_type: [st, result]
FinishedTypeWith(nats_handler, st, data, session_id) ==
    LET st1 == GetTracker(st, session_id, disk_ok)
    IN  IF ~HasStage("TYPE_AGENT")
        THEN [st |-> HandleErrorWith(nats_handler, st1, session_id, "TYPE_AGENT",
                                     AttributeErrorText("TYPE_AGENT")),
              result |-> "error: " \o AttributeErrorText("TYPE_AGENT")]
        ELSE
          LET st2 == AddEntry(st1, session_id, TimelineStage["TYPE_AGENT"],
                              TimelineStatus.SUCCESS, "", disk_ok)
          IN  IF "technique_name" \in DOMAIN data
              THEN LET st3 == [st2 EXCEPT !.od = UpdateOverview(
                                   st2.od, session_id,
                                   "Analysis completed: " \o data.technique_name
                                     \o " technique identified")]
                   IN  IF disk_ok
                       THEN [st |-> PublishTimelineUpdateWith(
                                        nats_handler, SaveToFile(st3, TRUE),
                                        session_id, "ACTION_TAKEN", ""),
                             result |-> "success"]
                       ELSE [st |-> HandleErrorWith(nats_handler, st3, session_id,
                                                    "TYPE_AGENT", WriteErrorText),
                             result |-> "error: " \o WriteErrorText]
              ELSE [st |-> PublishTimelineUpdateWith(nats_handler, st2,
                                                     session_id, "ACTION_TAKEN", ""),
                    result |-> "success"]

\* ControlAgent._finalize_output (exceptions are logged and swallowed)
FinalizeOutput(st, session_id, data) ==
    LET st1 == [st EXCEPT !.od = UpdateExecutiveSummary(
                    st.od, session_id, "Incident Analysis Complete",
                    "All processing stages completed successfully.")]
        st2 == IF "report" \in DOMAIN data
               THEN [st1 EXCEPT !.od = UpdateRecommendation(
                         st1.od, session_id,
                         "Final incident response recommendations", data.report)]
               ELSE IF "recommendation" \in DOMAIN data
               THEN [st1 EXCEPT !.od = UpdateRecommendation(
                         st1.od, session_id,
                         "Final incident response recommendations",
                         data.recommendation)]
               ELSE st1
    IN  SaveToFile(st2, disk_ok)

\* ControlAgent.finished_flow: [st, result]
FinishedFlowWith(nats_handler, st, data, session_id) ==
    IF "status" \in DOMAIN data /\ data.status = "error"
    THEN LET error_msg == IF "message" \in DOMAIN data THEN data.message
                          ELSE "Unknown error from agent"
         IN  [st |-> HandleErrorWith(nats_handler, st, session_id,
                                     "RECOMMENDATION", error_msg),
              result |-> "error: " \o error_msg]
    ELSE
      LET st1 == GetTracker(st, session_id, disk_ok)
      IN  IF ~HasStage("RECOMMENDATION")
          THEN [st |-> HandleErrorWith(nats_handler, st1, session_id,
                                       "RECOMMENDATION",
                                       AttributeErrorText("RECOMMENDATION")),
                result |-> "error: " \o AttributeErrorText("RECOMMENDATION")]
          ELSE
            LET st2 == AddEntry(st1, session_id, TimelineStage["RECOMMENDATION"],
                                TimelineStatus.SUCCESS, "", disk_ok)
                st3 == AddEntry(st2, session_id, TimelineStage.PROCESS_COMPLETE,
                                TimelineStatus.SUCCESS,
                                "Workflow completed successfully", disk_ok)
                st4 == [st3 EXCEPT !.fs = SaveSessionData(
                            st3.fs, session_id,
                            [session_id |-> session_id, final_results |-> data,
                             status |-> "completed"],
                            clock, disk_ok)]
                st5 == FinalizeOutput(st4, session_id, data)
            IN  [st |-> PublishTimelineUpdateWith(nats_handler, st5, session_id,
                                                  "RECOMMENDATION", ""),
                 result |-> "success"]

\* the same operations of the one ControlAgent of the process, whose
\* self.nats_handler is what nats_mode says
PublishTimelineUpdate(st, session_id, stage, error) ==
    PublishTimelineUpdateWith(nats_mode, st, session_id, stage, error)

HandleError(st, session_id, stage, error_msg) ==
    HandleErrorWith(nats_mode, st, session_id, stage, error_msg)

StartFlow(st, alert_data, session_id) ==
    StartFlowWith(nats_mode, st, alert_data, session_id)

FinishedType(st, data, session_id) ==
    FinishedTypeWith(nats_mode, st, data, session_id)

FinishedFlow(st, data, session_id) ==
    FinishedFlowWith(nats_mode, st, data, session_id)

\* assign the store of a finished handler back to the variables
CommitAll(st) ==
    /\ Commit(st)
    /\ files' = st.fs
    /\ published' = st.pub

\* inputs of the control API
AlertInputs == {[alert_id |-> "A1"], [severity |-> "high"]}
TypeInputs == {[technique_name |-> "T1055"], [confidence |-> "low"]}
FlowError == [status |-> "error", message |-> "boom"]
FlowSuccess == [status |-> "success", report |-> "ok"]
FlowInputs == {FlowError, FlowSuccess, [status |-> "completed"]}

\* POST /control/start (control_api.start_flow)
ApiStartFlow(s, alert_data) ==
    /\ Cardinality(active_sessions \cup {s}) > max_sessions
         => cleanup_tasks < MaxCtlPending
    /\ AddSessionReg(s)
    /\ LET r == StartFlow(Store, alert_data, s)
       IN  /\ Len(TimelineData(r.st.od)) <= MaxCtlTimeline
           /\ CommitAll(r.st)
           /\ last_op' = OpA("start_flow", s, alert_data, r.result)
    /\ UNCHANGED <<disk_ok, nats_mode, regParams, next_sweep, clock, notCtl>>

\* POST /control/type/finished (control_api.finished_type)
ApiFinishedType(s, data) ==
    /\ UpdateSessionReg(s)
    /\ LET r == FinishedType(Store, data, s)
       IN  /\ Len(TimelineData(r.st.od)) <= MaxCtlTimeline
           /\ CommitAll(r.st)
           /\ last_op' = OpA("finished_type", s, data, r.result)
    /\ UNCHANGED <<disk_ok, nats_mode, active_sessions, cleanup_tasks,
                   regParams, next_sweep, clock, notCtl>>

\* POST /control/flow/finished (control_api.finished_flow)
ApiFinishedFlow(s, data) ==
    /\ UpdateSessionReg(s)
    /\ LET r == FinishedFlow(Store, data, s)
       IN  /\ Len(TimelineData(r.st.od)) <= MaxCtlTimeline
           /\ CommitAll(r.st)
           /\ last_op' = OpA("finished_flow", s, data, r.result)
    /\ UNCHANGED <<disk_ok, nats_mode, active_sessions, cleanup_tasks,
                   regParams, next_sweep, clock, notCtl>>

\* ------------------------------------------------- pipeline consumers
MaxMsgs == 1
MaxDeliveries == 2
MsgIds == 1..MaxMsgs

\* what a message's bytes are: a JSON object, text that is not JSON, bytes
\* that are not UTF-8, JSON that is not an object, or nothing
MsgKinds == {"valid", "bad_json", "bad_utf8", "non_object", "empty"}
AgentKinds == {"analysis", "recommendation", "context"}

\* json.loads(msg.data.decode('utf-8')) returns
Parses(kind) == kind \in {"valid", "non_object"}

\* the payload of a valid message
Payload(m) ==
    [alert_id |-> "A" \o ToString(m), session_id |-> SessionId(m),
     raw_log_data |-> [event |-> "E"]]

\* results of AnalysisAgent._analyze_alert (the second is its fallback)
AnalysisResults ==
    {[technique_name |-> "T1055", tactic |-> "Execution", confidence_score |-> 1],
     [technique_name |-> "Unknown", tactic |-> "Unknown", confidence_score |-> 0]}

\* tactic_mapping.get(tactic_name, "TA0000")
TacticId(tactic_name) == IF tactic_name = "Execution" THEN "TA0002" ELSE "TA0000"

\* str(e) of the exception a failed publish raises
PublishErrorText == "publish failed"

AgentStage == IF agent_kind = "analysis" THEN TimelineStage.ANALYSIS_AGENT
              ELSE TimelineStage.RECOMMENDATION_AGENT

\* the loop condition `while self.running`, evaluated after a message
LoopTop == IF agent_running THEN "fetch" ELSE "exited"

\* a consumer step's record: was the message parsed, did processing raise
OpC(name, m, parsed, raised) ==
    [name |-> name, sid |-> "", result |-> "", removed |-> {},
     redelivered |-> FALSE,
     arg |-> [kind |-> "message", msg |-> m, parsed |-> parsed,
              raised |-> raised]]

\* psub.fetch(batch=1) returns a message / the bus invokes message_handler
AgentFetch(m) ==
    /\ agent_pc = "fetch"
    /\ msg_state[m] = "pending"
    /\ deliveries[m] < MaxDeliveries
    /\ msg_state' = [msg_state EXCEPT ![m] = "inflight"]
    /\ deliveries' = [deliveries EXCEPT ![m] = @ + 1]
    /\ agent_msg' = m
    /\ agent_pc' = "handle"
    /\ last_op' = Op("fetch", "")
    /\ UNCHANGED <<agent_kind, msg_kinds, agent_running, downstream, outVars,
                   published, notCons>>

\* psub.fetch times out: the loop condition is evaluated again
AgentFetchTimeout ==
    /\ agent_kind # "context"
    /\ agent_pc = "fetch"
    /\ ~agent_running
    /\ agent_pc' = "exited"
    /\ last_op' = Op("fetch_timeout", "")
    /\ UNCHANGED <<agent_kind, msg_kinds, msg_state, deliveries, agent_running,
                   agent_msg, downstream, outVars, published, notCons>>

\* psub.fetch returns a message that was already delivered MaxDeliveries
\* times: the bus redelivers an unacknowledged message without limit, the
\* count of deliveries stays at its bound
AgentFetchAgain(m) ==
    /\ agent_pc = "fetch"
    /\ msg_state[m] = "pending"
    /\ deliveries[m] = MaxDeliveries
    /\ msg_state' = [msg_state EXCEPT ![m] = "inflight"]
    /\ agent_msg' = m
    /\ agent_pc' = "handle"
    /\ last_op' = Op("fetch_again", "")
    /\ UNCHANGED <<agent_kind, msg_kinds, deliveries, agent_running,
                   downstream, outVars, published, notCons>>

\* a stop that would cancel the loop's task instead of flipping the flag
AgentStopCancelling ==
    /\ agent_kind # "context"
    /\ agent_running
    /\ agent_running' = FALSE
    /\ agent_pc' = "exited"
    /\ last_op' = Op("stop", "")
    /\ UNCHANGED <<agent_kind, msg_kinds, msg_state, deliveries,
                   agent_msg, downstream, outVars, published, notCons>>
\* AnalysisAgent.stop / RecommendationAgent.stop
AgentStop ==
    /\ agent_kind # "context"
    /\ agent_running
    /\ agent_running' = FALSE
    /\ last_op' = Op("stop", "")
    /\ UNCHANGED <<agent_kind, msg_kinds, msg_state, deliveries, agent_pc,
                   agent_msg, downstream, outVars, published, notCons>>

\* the except-Exception branch of the pull loops: mark the error when the
\* payload can be read again, never acknowledge
MarkProcessingError(st, kind, m, error_msg) ==
    IF kind # "valid" THEN st
    ELSE LET st1 == GetTracker(st, SessionId(m), disk_ok)
             st2 == AddEntry(st1, SessionId(m), AgentStage,
                             TimelineStatus.ERROR, error_msg, disk_ok)
         IN  IF agent_kind = "recommendation"
             THEN AddEntry(st2, SessionId(m), TimelineStage.PROCESS_COMPLETE,
                           TimelineStatus.ERROR,
                           "Processing failed: " \o error_msg, disk_ok)
             ELSE st2

\* the pull loops from json.loads to the LLM call
PullHandle ==
    /\ agent_kind \in {"analysis", "recommendation"}
    /\ agent_pc = "handle"
    /\ LET m == agent_msg
           kind == msg_kinds[m]
       IN  IF kind \in {"bad_json", "empty"}
           THEN \* json.JSONDecodeError: acknowledge
                /\ msg_state' = [msg_state EXCEPT ![m] = "acked"]
                /\ agent_pc' = LoopTop
                /\ agent_msg' = 0
                /\ last_op' = OpC("handle_message", m, FALSE, FALSE)
                /\ UNCHANGED <<outVars, published>>
           ELSE IF kind \in {"bad_utf8", "non_object"}
           THEN \* UnicodeDecodeError / AttributeError: except Exception
                /\ msg_state' = [msg_state EXCEPT ![m] = "pending"]
                /\ agent_pc' = LoopTop
                /\ agent_msg' = 0
                /\ last_op' = OpC("handle_message", m, Parses(kind), Parses(kind))
                /\ UNCHANGED <<outVars, published>>
           ELSE LET st1 == GetTracker(Store, SessionId(m), disk_ok)
                    st2 == AddEntry(st1, SessionId(m), AgentStage,
                                    TimelineStatus.IN_PROGRESS, "", disk_ok)
                    st3 == IF agent_kind = "analysis"
                           THEN [st2 EXCEPT !.fs = SaveAlert(
                                     st2.fs, Payload(m).alert_id,
                                     Payload(m).raw_log_data, clock, disk_ok)]
                           ELSE UpdateOutput(st2, SessionId(m))
                IN  /\ CommitAll(st3)
                    /\ UNCHANGED <<msg_state, agent_msg, disk_ok>>
                    /\ agent_pc' = "llm"
                    /\ last_op' = Op("begin_processing", SessionId(m))
    /\ UNCHANGED <<agent_kind, msg_kinds, deliveries, agent_running,
                   downstream, notCons>>

\* the result of RecommendationAgent._generate_report
Report == "report"

\* RecommendationAgent._update_output_sections (exceptions are logged and
\* swallowed); parsed = the report had the sections _parse_markdown_report
\* looks for
UpdateOutputSections(st, session_id, parsed) ==
    LET od1 == UpdateOverview(st.od, session_id,
                              IF parsed THEN "overview of " \o Report
                              ELSE "")
        od2 == IF parsed
               THEN UpdateRecommendation(od1, session_id,
                                         "Investigation Recommendations", Report)
               ELSE UpdateRecommendation(
                        od1, session_id,
                        "Generated incident response recommendations for "
                          \o "Unknown technique", Report)
        od3 == IF parsed
               THEN UpdateExecutiveSummary(od2, session_id,
                                           "Security Incident Analysis", Report)
               ELSE UpdateExecutiveSummary(
                        od2, session_id, "Security Incident Analysis - Unknown",
                        "Detected Unknown technique")
        od4 == IF parsed
               THEN UpdateChecklist(od3, session_id,
                                    "Incident Response Checklist", Report)
               ELSE UpdateChecklist(od3, session_id,
                                    "Incident Response Checklist",
                                    "- [ ] Isolate affected host from network")
    IN  SaveToFile([st EXCEPT !.od = od4], disk_ok)

\* the store after the steps between the LLM call and the publish, and
\* whether one of them raised
BeforePublish(st, m, result, parsed) ==
    IF agent_kind = "analysis"
    THEN LET st1 == [st EXCEPT !.fs = SaveAnalysis(st.fs, SessionId(m), result,
                                                    clock, disk_ok)]
             st2 == [st1 EXCEPT !.od = UpdateAttackMapping(
                         st1.od, SessionId(m),
                         <<[tacticID |-> TacticId(result.tactic),
                            tacticName |-> result.tactic,
                            confidence |-> result.confidence_score]>>)]
             st3 == [st2 EXCEPT !.od = UpdateOverview(
                         st2.od, SessionId(m),
                         "MITRE ATT&CK analysis completed. Identified technique: "
                           \o result.technique_name)]
         IN  [st |-> SaveToFile(st3, disk_ok), raised |-> ~disk_ok]
    ELSE LET st1 == [st EXCEPT !.fs = SaveReport(
                         st.fs, SessionId(m),
                         [markdown_report |-> Report, analysis_data |-> <<>>,
                          alert_id |-> Payload(m).alert_id],
                         clock, disk_ok)]
         IN  [st |-> UpdateOutputSections(st1, SessionId(m), parsed),
              raised |-> FALSE]

\* the marks that follow a successful publish
AfterPublish(st, m) ==
    LET st1 == AddEntry(st, SessionId(m), AgentStage, TimelineStatus.SUCCESS,
                        "", disk_ok)
    IN  IF agent_kind = "analysis" THEN st1
        ELSE AddEntry(AddEntry(st1, SessionId(m),
                               TimelineStage.OUTPUT_GENERATED,
                               TimelineStatus.SUCCESS, "", disk_ok),
                      SessionId(m), TimelineStage.PROCESS_COMPLETE,
                      TimelineStatus.SUCCESS,
                      "All processing stages completed successfully", disk_ok)

\* NATSHandler.publish raises when the publish fails
PublishSwallows(pub_ok) == FALSE

PublishRaises(pub_ok) == ~pub_ok

\* the pull loops from the LLM's answer to the timeline marks after the publish
PullFinish(result, parsed, pub_ok) ==
    /\ agent_kind \in {"analysis", "recommendation"}
    /\ agent_pc = "llm"
    /\ LET m == agent_msg
           b == BeforePublish(Store, m, result, parsed)
       IN  IF b.raised \/ PublishRaises(pub_ok)
           THEN /\ CommitAll(MarkProcessingError(
                        b.st, "valid", m,
                        IF b.raised THEN WriteErrorText ELSE PublishErrorText))
                /\ msg_state' = [msg_state EXCEPT ![m] = "pending"]
                /\ agent_pc' = LoopTop
                /\ agent_msg' = 0
                /\ downstream' = downstream
                /\ last_op' = OpC("handle_message", m, TRUE, TRUE)
           ELSE /\ CommitAll(AfterPublish(b.st, m))
                /\ downstream' = IF pub_ok THEN downstream \cup {m}
                                 ELSE downstream
                /\ agent_pc' = "ack"
                /\ last_op' = Op("published", SessionId(m))
                /\ UNCHANGED <<msg_state, agent_msg>>
    /\ UNCHANGED <<agent_kind, msg_kinds, deliveries, agent_running, notCons>>

\* await msg.ack() at the end of the try block
PullAck ==
    /\ agent_kind \in {"analysis", "recommendation"}
    /\ agent_pc = "ack"
    /\ msg_state' = [msg_state EXCEPT ![agent_msg] = "acked"]
    /\ agent_pc' = LoopTop
    /\ agent_msg' = 0
    /\ last_op' = OpC("handle_message", agent_msg, TRUE, FALSE)
    /\ UNCHANGED <<agent_kind, msg_kinds, deliveries, agent_running,
                   downstream, outVars, published, notCons>>

\* message_handler up to the call of send_to_next_agent_json
ContextHandle ==
    /\ agent_kind = "context"
    /\ agent_pc = "handle"
    /\ IF msg_kinds[agent_msg] = "empty"
       THEN \* "Empty message - skipping": returns without msg.ack()
            /\ msg_state' = [msg_state EXCEPT ![agent_msg] = "pending"]
            /\ agent_pc' = "fetch"
            /\ agent_msg' = 0
            /\ last_op' = OpC("handle_message", agent_msg, FALSE, FALSE)
       ELSE /\ agent_pc' = "llm"
            /\ last_op' = Op("begin_processing", "")
            /\ UNCHANGED <<msg_state, agent_msg>>
    /\ UNCHANGED <<agent_kind, msg_kinds, deliveries, agent_running,
                   downstream, outVars, published, notCons>>

\* send_to_next_agent_json returns or raises, then message_handler
\* acknowledges in its try block or in its except block
ContextFinish(agent_raises, pub_ok) ==
    /\ agent_kind = "context"
    /\ agent_pc = "llm"
    /\ LET m == agent_msg
           parsed == msg_kinds[m] \in {"valid", "non_object"}
       IN  /\ downstream' = IF parsed /\ ~agent_raises /\ pub_ok
                            THEN downstream \cup {m} ELSE downstream
           /\ msg_state' = [msg_state EXCEPT ![m] = "acked"]
           /\ last_op' = OpC("handle_message", m, parsed,
                             parsed /\ (agent_raises \/ ~pub_ok))
    /\ agent_pc' = "fetch"
    /\ agent_msg' = 0
    /\ UNCHANGED <<agent_kind, msg_kinds, deliveries, agent_running,
                   outVars, published, notCons>>

\* ------------------------------ ControlAgent/control/nats_action.py (legacy)
MaxLegacyLog == 2

\* request bodies: two JSON objects, text that is not JSON
LegacyBodies == {"{}", "{\"technique_name\": \"T1055\"}", "not json"}

\* json.loads(data_str) raises json.JSONDecodeError
JsonLoadsRaises(data_str) == data_str = "not json"

\* json.loads(data_str)
JsonLoads(data_str) ==
    IF data_str = "{}" THEN <<>> ELSE [technique_name |-> "T1055"]

\* alertid passed by every caller in nats_action.py
LegacyAlertId == "not_included_yet"

\* record_alert.append_json: the list in the file with the entry appended
AppendJson(fs, file_name, new_entry) ==
    LET key == <<"database", file_name>>
        data == IF key \in DOMAIN fs THEN fs[key] ELSE <<>>
    IN  DictSet(fs, key, Append(data, new_entry))

\* the length of a log file of the legacy control agent
LegacyLogLen(file_name) ==
    IF <<"database", file_name>> \in DOMAIN files
    THEN Len(files[<<"database", file_name>>]) ELSE 0

\* the common shape of startFlow and finishedType: parse, append to the log,
\* publish build_timeline_payload(case) on agentAI.websoc; an exception of
\* append_json or publish_js_message becomes the "error: ..." result
LegacyTransition(name, file_name, case, data_str, pub_ok) ==
    /\ LegacyLogLen(file_name) < MaxLegacyLog
    /\ IF JsonLoadsRaises(data_str)
       THEN /\ last_op' = OpA(name, LegacyAlertId,
                              [body |-> data_str, pub_ok |-> pub_ok],
                              "error: invalid JSON")
            /\ UNCHANGED <<files, published>>
       ELSE IF ~disk_ok
       THEN /\ last_op' = OpA(name, LegacyAlertId,
                              [body |-> data_str, pub_ok |-> pub_ok],
                              "error: " \o WriteErrorText)
            /\ UNCHANGED <<files, published>>
       ELSE /\ files' = AppendJson(files, file_name, JsonLoads(data_str))
            /\ published' =
                 IF pub_ok
                 THEN LET p == LegacyBuildTimelinePayload(case, "",
                                                          LegacyAlertId)
                      IN  [alert_id |-> p.updated.alert_id,
                           data |-> p.updated.data]
                 ELSE published
            /\ last_op' = OpA(name, LegacyAlertId,
                              [body |-> data_str, pub_ok |-> pub_ok],
                              IF pub_ok THEN "success"
                              ELSE "error: " \o PublishErrorText)
    /\ UNCHANGED <<output_data, output_file, trackers, disk_ok, nats_mode,
                   regVars, notCtl>>

\* the case finishedType passes to build_timeline_payload
LegacyTypeCase == 5

\* nats_action.startFlow
LegacyStartFlow(data_str, pub_ok) ==
    LegacyTransition("legacy_start_flow", "start_log.json", 1, data_str, pub_ok)

\* nats_action.finishedType
LegacyFinishedType(data_str, pub_ok) ==
    LegacyTransition("legacy_finished_type", "type_log.json", LegacyTypeCase,
                     data_str, pub_ok)

\* ------------------------------------------- TimelineTracker operations
ErrorTexts == {"boom"}

\* the stages the consumers pass to their tracker
\* (analysis_agent.py:74, recommendation_agent.py:75)
StageInputs == {"ANALYSIS_AGENT", "RECOMMENDATION_AGENT"}

\* get_timeline_tracker(session_id)
GetTimelineTracker(s) ==
    /\ Len(TimelineData(output_data)) + TrackerInitEntries(s) <= MaxTimeline
    /\ Commit(GetTracker(Store, s, disk_ok))
    /\ last_op' = Op("get_timeline_tracker", s)
    /\ UNCHANGED <<files, disk_ok, notOut>>

\* TimelineTracker.mark_stage_in_progress
MarkStageInProgress(s, member) ==
    /\ s \in trackers
    /\ Len(TimelineData(output_data)) < MaxTimeline
    /\ Commit(AddEntry(Store, s, TimelineStage[member],
                         TimelineStatus.IN_PROGRESS, "", disk_ok))
    /\ last_op' = Op("mark_stage_in_progress", s)
    /\ UNCHANGED <<files, disk_ok, notOut>>

\* TimelineTracker.mark_stage_success
MarkStageSuccess(s, member) ==
    /\ s \in trackers
    /\ Len(TimelineData(output_data)) < MaxTimeline
    /\ Commit(AddEntry(Store, s, TimelineStage[member],
                         TimelineStatus.SUCCESS, "", disk_ok))
    /\ last_op' = Op("mark_stage_success", s)
    /\ UNCHANGED <<files, disk_ok, notOut>>

\* TimelineTracker.mark_stage_error
MarkStageError(s, member, error_message) ==
    /\ s \in trackers
    /\ Len(TimelineData(output_data)) < MaxTimeline
    /\ Commit(AddEntry(Store, s, TimelineStage[member],
                         TimelineStatus.ERROR, error_message, disk_ok))
    /\ last_op' = Op("mark_stage_error", s)
    /\ UNCHANGED <<files, disk_ok, notOut>>

\* TimelineTracker.complete_processing
CompleteProcessing(s, success, final_message) ==
    /\ s \in trackers
    /\ Len(TimelineData(output_data)) < MaxTimeline
    /\ Commit(AddEntry(Store, s, TimelineStage.PROCESS_COMPLETE,
                         IF success THEN TimelineStatus.SUCCESS
                                    ELSE TimelineStatus.ERROR,
                         final_message, disk_ok))
    /\ last_op' = Op("complete_processing", s)
    /\ UNCHANGED <<files, disk_ok, notOut>>

\* OutputHandler.clear_session_data called on its own (SessionManager's
\* _cleanup_session_data)
ClearSession(s) ==
    /\ output_data' = ClearSessionData(output_data, s)
    /\ last_op' = Op("clear_session_data", s)
    /\ UNCHANGED <<output_file, trackers, files, disk_ok, notOut>>

OutInit ==
    /\ output_data = InitializeOutputStructure
    /\ output_file = <<>>
    /\ trackers = {}
    /\ files = <<>>

\* ------------------------------------------------ TimelineTracker queries
\* the key the tracker's queries look up
KeyTimelineQueried == "agent.timeline.updated"

\* TimelineTracker.get_current_timeline: the data of the first item with the
\* session's id in the list under the queried key, [] when there is none
GetCurrentTimeline(od, session_id) ==
    LET items == IF KeyTimelineQueried \in DOMAIN od
                 THEN od[KeyTimelineQueried] ELSE <<>>
        hits == {i \in 1..Len(items) : items[i].id = session_id}
    IN  IF hits = {} THEN <<>>
        ELSE items[CHOOSE i \in hits : \A j \in hits : i <= j].data

\* TimelineTracker.is_stage_completed
IsStageCompleted(od, session_id, stage_name) ==
    \E i \in 1..Len(GetCurrentTimeline(od, session_id)) :
        /\ GetCurrentTimeline(od, session_id)[i].stage = stage_name
        /\ GetCurrentTimeline(od, session_id)[i].status = TimelineStatus.SUCCESS

\* TimelineTracker.has_errors
HasErrors(od, session_id) ==
    \E i \in 1..Len(GetCurrentTimeline(od, session_id)) :
        GetCurrentTimeline(od, session_id)[i].status = TimelineStatus.ERROR

\* TimelineTracker.get_error_stages (as the set of the listed stages)
GetErrorStages(od, session_id) ==
    {GetCurrentTimeline(od, session_id)[i].stage :
        i \in {j \in 1..Len(GetCurrentTimeline(od, session_id)) :
                 GetCurrentTimeline(od, session_id)[j].status
                     = TimelineStatus.ERROR}}

\* ------------------------------------------- control_app.py compatibility
\* POST /start (start_processing_compat): the input file's first alert is
\* started under a freshly generated session id; a missing file is reported
CompatFileMissing == "input file not found"
StartProcessingCompat(s, alert_data, file_exists) ==
    /\ s \notin trackers \cup active_sessions
    /\ IF file_exists
       THEN LET r == StartFlow(Store, alert_data, s)
            IN  /\ Len(TimelineData(r.st.od)) <= MaxCtlTimeline
                /\ CommitAll(r.st)
                /\ last_op' = OpA("start_processing_compat", s, alert_data,
                                  r.result)
       ELSE /\ last_op' = OpA("start_processing_compat", "", NoArg,
                              CompatFileMissing)
            /\ UNCHANGED <<output_data, output_file, trackers, files,
                           published>>
    /\ UNCHANGED <<disk_ok, nats_mode, regVars, notCtl>>

\* ------------------------------------------------ llm_handler_ollama.py
MaxLlmRetries == 5

\* what one request to the Ollama endpoint can lead to: an HTTP status, or an
\* exception raised by the request
LlmResponses == {"200", "500", "404", "client_error", "timeout"}

\* the Exception stored in last_exception for a failed request
LlmError(response) ==
    IF response \in {"500", "404"} THEN "Ollama API error: " \o response
    ELSE IF response = "client_error" THEN "Ollama connection error"
    ELSE "Ollama timeout error"

\* 400 <= response.status < 500
IsClientStatusNever(response) == FALSE
IsClientStatus(response) == response = "404"

\* if attempt < max_retries (another iteration of range(max_retries + 1))
HasMoreAttemptsOffByOne(attempt, max_retries) == attempt + 1 < max_retries
HasMoreAttempts(attempt, max_retries) == attempt < max_retries

\* min(2 ** attempt, 10)
BackoffCap == 10
WaitTimeUncapped(attempt) == 2^attempt
WaitTime(attempt) == IF 2^attempt < BackoffCap THEN 2^attempt ELSE BackoffCap

\* base_timeout + (attempt * 20)
DefaultTimeout == 60
TimeoutIncrement == 20
AttemptTimeout(base_timeout, attempt) ==
    base_timeout + (attempt * TimeoutIncrement)

\* the timeout configured for the client (default, or set in llm_config)
LlmBaseTimeouts == {DefaultTimeout, 120}

LlmIdle ==
    /\ llm_base_timeout = DefaultTimeout
    /\ llm_timeout = 0
    /\ llm_pc = "idle"
    /\ llm_max_retries = 0
    /\ llm_attempt = 0
    /\ llm_responses = <<>>
    /\ llm_last_exception = ""
    /\ llm_wait = 0

\* get_llm_completion(messages, llm_config, max_retries) is called
LlmCall(max_retries, base_timeout) ==
    /\ llm_pc = "idle"
    /\ llm_base_timeout' = base_timeout
    /\ UNCHANGED llm_timeout
    /\ llm_pc' = "attempt"
    /\ llm_max_retries' = max_retries
    /\ llm_attempt' = 0
    /\ llm_last_exception' = ""
    /\ last_op' = Op("get_llm_completion", "")
    /\ UNCHANGED <<llm_responses, llm_wait, notLlm>>

\* one iteration of the retry loop up to its sleep: the request is made and
\* answered; 200 returns the content, a 4xx status leaves the loop, anything
\* else is retried after a sleep while attempts remain; leaving the loop
\* raises last_exception
LlmAttempt(response) ==
    /\ llm_pc = "attempt"
    /\ llm_timeout' = AttemptTimeout(llm_base_timeout, llm_attempt)
    /\ llm_responses' = Append(llm_responses, response)
    /\ IF response = "200"
       THEN /\ llm_pc' = "returned"
            /\ UNCHANGED <<llm_last_exception, llm_wait>>
       ELSE /\ llm_last_exception' = LlmError(response)
            /\ IF ~IsClientStatus(response)
                  /\ HasMoreAttempts(llm_attempt, llm_max_retries)
               THEN /\ llm_pc' = "sleep"
                    /\ llm_wait' = WaitTime(llm_attempt)
               ELSE /\ llm_pc' = "raised"
                    /\ UNCHANGED llm_wait
    /\ last_op' = OpA("llm_attempt", "", [response |-> response],
                      IF response = "200" THEN "content" ELSE LlmError(response))
    /\ UNCHANGED <<llm_max_retries, llm_attempt, llm_base_timeout, notLlm>>

\* asyncio.sleep(wait_time) returns and the loop takes its next iteration
LlmSleepReturns ==
    /\ llm_pc = "sleep"
    /\ llm_pc' = "attempt"
    /\ llm_attempt' = llm_attempt + 1
    /\ llm_wait' = 0
    /\ last_op' = Op("llm_retry", "")
    /\ UNCHANGED <<llm_max_retries, llm_responses, llm_last_exception,
                   llm_base_timeout, llm_timeout, notLlm>>

\* ------------------------------------------------------- nats_handler.py
MaxNatsSent == 2

\* subjects and payloads handed to publish; the last payload holds a value
\* json.dumps cannot encode
NatsSubjects == {"agentAI.analysis", "agentAI.websoc"}
NatsPayloads == {[alert_id |-> "A1"], [status |-> "error"],
                 [raw |-> "<object>"]}

\* json.dumps(payload) raises TypeError
JsonDumpsRaises(payload) == "raw" \in DOMAIN payload

\* json.dumps(payload).encode('utf-8') of an encodable payload
JsonDumps(payload) ==
    IF "alert_id" \in DOMAIN payload
    THEN "{\"alert_id\": \"" \o payload.alert_id \o "\"}"
    ELSE "{\"status\": \"" \o payload.status \o "\"}"

NotConnectedText == "NATS not connected. Call connect() first."

\* NATSHandler.publish: the error it raises to its caller ("" = returns)
NatsPublishErrorBusOnly(js, payload, bus_ok) ==
    IF js /\ ~JsonDumpsRaises(payload) /\ ~bus_ok THEN "publish failed" ELSE ""
NatsPublishError(js, payload, bus_ok) ==
    IF ~js THEN NotConnectedText
    ELSE IF JsonDumpsRaises(payload) THEN "not JSON serializable"
    ELSE IF ~bus_ok THEN "publish failed"
    ELSE ""

NatsIdle ==
    /\ nats_nc = "new"
    /\ nats_js = FALSE
    /\ nats_sent = <<>>
    /\ bus_streams = <<>>

\* config.get('stream_name', 'AGENT_AI_PIPELINE')
DefaultStreamName == "AGENT_AI_PIPELINE"

\* the subjects of a handler's configuration: list(self.subjects.values())
PipelineSubjects == {"agentAI.input", "agentAI.analysis", "agentAI.output"}

\* StreamConfig(name, subjects, retention="workqueue"), storage by default
HandlerStreamConfig(subjects) ==
    [subjects |-> subjects, retention |-> "workqueue", storage |-> "file"]

\* StreamConfig(name, subjects=[f"{input_filter}.>"], storage="memory")
ScriptStreamConfig(input_filter) ==
    [subjects |-> {input_filter \o ".>"}, retention |-> "limits",
     storage |-> "memory"]

\* js.stream_info(name) returns (False: it raises NotFoundError)
StreamInfoFindsNothing(streams, name) == FALSE
StreamInfoFinds(streams, name) == name \in DOMAIN streams

\* the server's answer to js.add_stream: it creates a stream whose name is
\* free, accepts a request equal to the existing configuration without
\* changing anything, and rejects every other request for a name that is
\* taken ("stream name already in use")
AddStream(streams, name, config) ==
    IF name \notin DOMAIN streams
    THEN [streams |-> DictSet(streams, name, config), raised |-> FALSE]
    ELSE [streams |-> streams, raised |-> streams[name] # config]

\* NATSHandler._ensure_stream_exists: [streams, raised]
EnsureStreamExists(streams, name, subjects) ==
    IF StreamInfoFinds(streams, name)
    THEN [streams |-> streams, raised |-> FALSE]
    ELSE AddStream(streams, name, HandlerStreamConfig(subjects))

\* NATSHandler.connect: nc.connect may raise (js stays unset), and so may
\* _ensure_stream_exists after js was set
NatsConnect(outcome) ==
    /\ nats_nc = "new"
    /\ nats_nc' = IF outcome = "connect_failed" THEN "new" ELSE "connected"
    /\ nats_js' = (outcome # "connect_failed")
    /\ bus_streams' =
         IF outcome = "connected"
         THEN EnsureStreamExists(bus_streams, DefaultStreamName,
                                 PipelineSubjects).streams
         ELSE bus_streams
    /\ last_op' = OpA("connect", "", [outcome |-> outcome],
                      IF outcome = "connected" THEN "returned" ELSE "raised")
    /\ UNCHANGED <<nats_sent, notNats>>

\* a new NATSHandler(config) is constructed and its connect() awaited;
\* bus = what the server does: "up", "unreachable" (nc.connect raises) or
\* "info_fails" (stream_info raises something other than NotFoundError)
HandlerConnects(stream_name, subjects, bus) ==
    LET e == EnsureStreamExists(bus_streams, stream_name, subjects)
        raised == bus # "up" \/ e.raised
    IN  /\ nats_nc' = IF bus = "unreachable" THEN "new" ELSE "connected"
        /\ nats_js' = (bus # "unreachable")
        /\ bus_streams' = IF bus = "up" THEN e.streams ELSE bus_streams
        /\ last_op' = OpA("connect", stream_name,
                          [subjects |-> subjects, bus |-> bus],
                          IF raised THEN "raised" ELSE "returned")
        /\ UNCHANGED <<nats_sent, notNats>>

\* create_js_stream(input_stream, input_filter) of NatsFlow: add_stream,
\* then stream_info("model_stream"); every exception is printed, not raised
CreateJsStream(input_stream, input_filter, bus) ==
    /\ bus_streams' =
         IF bus = "up"
         THEN AddStream(bus_streams, input_stream,
                        ScriptStreamConfig(input_filter)).streams
         ELSE bus_streams
    /\ last_op' = OpA("create_js_stream", input_stream,
                      [subjects |-> {input_filter \o ".>"}, bus |-> bus],
                      IF bus = "unreachable" THEN "raised" ELSE "returned")
    /\ UNCHANGED <<nats_nc, nats_js, nats_sent, notNats>>

\* NATSHandler.publish; the bus accepts a message only over an open
\* connection
NatsPublish(subject, payload, bus_ok) ==
    /\ Len(nats_sent) < MaxNatsSent
    /\ nats_nc # "connected" => ~bus_ok
    /\ LET error == NatsPublishError(nats_js, payload, bus_ok)
       IN  /\ nats_sent' =
                 IF nats_js /\ ~JsonDumpsRaises(payload) /\ bus_ok
                 THEN Append(nats_sent, [subject |-> subject,
                                         data |-> JsonDumps(payload)])
                 ELSE nats_sent
           /\ last_op' = OpA("publish", subject, payload,
                             IF error = "" THEN "returned"
                             ELSE "raised: " \o error)
    /\ UNCHANGED <<nats_nc, nats_js, bus_streams, notNats>>

\* NATSHandler.close: drains the connection; js is left as it is
NatsClose ==
    /\ nats_nc' = IF nats_nc = "connected" THEN "closed" ELSE nats_nc
    /\ last_op' = Op("close", "")
    /\ UNCHANGED <<nats_js, nats_sent, bus_streams, notNats>>

\* --------------------------------- OutputHandler calls and graphql_publisher
MaxGraphqlTasks == 1
MaxSections == 1

\* no request has called get_control_agent
ApiIdle ==
    /\ control_agent = 0
    /\ control_agents_built = 0
    /\ control_lock_holder = 0
    /\ control_lock_waiters = <<>>
    /\ control_pc = [c \in Callers |-> "idle"]
    /\ control_result = [c \in Callers |-> 0]
    /\ control_get_calls = 0
    /\ sweep_starts = 0

\* the connection id get_control_agent asks the connection manager for
ControlAgentKey == "x"

\* _control_agent_lock.acquire: as for every asyncio.Lock
CanAcquireControl(c) ==
    /\ control_lock_holder = 0
    /\ control_lock_waiters = <<>> \/ Head(control_lock_waiters) = c

\* "if _control_agent is None" inside the lock
StillNoAgentUnchecked == TRUE

StillNoAgent == control_agent = 0

\* the part of get_control_agent that runs once the lock is held: the second
\* check, then connection_manager.get_connection("control_agent", nats_config)
\* up to its first suspension
GetControlAgentLocked(c) ==
    IF StillNoAgent
    THEN /\ pc[c] \in {"idle", "done"}
         /\ control_lock_holder' = c
         /\ control_pc' = [control_pc EXCEPT ![c] = "get_connection"]
         /\ control_get_calls' = control_get_calls + 1
         /\ caller_key' = [caller_key EXCEPT ![c] = ControlAgentKey]
         /\ IF CanAcquire(c)
            THEN /\ GetConnectionLocked(c, ControlAgentKey)
                 /\ UNCHANGED lock_waiters
            ELSE /\ lock_waiters' = Append(lock_waiters, c)
                 /\ pc' = [pc EXCEPT ![c] = "wait_get"]
                 /\ caller_result' = [caller_result EXCEPT ![c] = 0]
                 /\ UNCHANGED <<lock_holder, next_handler, caller_handler,
                                connect_calls>>
         /\ UNCHANGED control_result
    ELSE /\ control_lock_holder' = 0
         /\ control_pc' = [control_pc EXCEPT ![c] = "done"]
         /\ control_result' = [control_result EXCEPT ![c] = control_agent]
         /\ UNCHANGED <<control_get_calls, caller_key, lock_waiters, pc,
                        caller_result, lock_holder, next_handler,
                        caller_handler, connect_calls>>

\* a request enters get_control_agent()
CallGetControlAgent(c) ==
    /\ control_pc[c] \in {"idle", "done"}
    /\ IF control_agent # 0
       THEN /\ control_pc' = [control_pc EXCEPT ![c] = "done"]
            /\ control_result' = [control_result EXCEPT ![c] = control_agent]
            /\ UNCHANGED <<control_lock_holder, control_lock_waiters,
                           control_get_calls, caller_key, lock_waiters, pc,
                           caller_result, lock_holder, next_handler,
                           caller_handler, connect_calls>>
       ELSE IF CanAcquireControl(c)
       THEN /\ GetControlAgentLocked(c)
            /\ UNCHANGED control_lock_waiters
       ELSE /\ control_lock_waiters' = Append(control_lock_waiters, c)
            /\ control_pc' = [control_pc EXCEPT ![c] = "wait_lock"]
            /\ UNCHANGED <<control_lock_holder, control_result,
                           control_get_calls, caller_key, lock_waiters, pc,
                           caller_result, lock_holder, next_handler,
                           caller_handler, connect_calls>>
    /\ last_op' = Op("get_control_agent", "")
    /\ UNCHANGED <<control_agent, control_agents_built, sweep_starts,
                   connections, connect_failures, close_calls, live_handlers,
                   outVars, regVars, ctlVars, consVars, llmVars, natsVars,
                   gqlVars>>

\* a request suspended on _control_agent_lock is handed the lock
ResumeGetControlAgent(c) ==
    /\ control_pc[c] = "wait_lock"
    /\ CanAcquireControl(c)
    /\ control_lock_waiters # <<>> /\ Head(control_lock_waiters) = c
    /\ control_lock_waiters' = Tail(control_lock_waiters)
    /\ GetControlAgentLocked(c)
    /\ last_op' = Op("get_control_agent_resumed", "")
    /\ UNCHANGED <<control_agent, control_agents_built, sweep_starts,
                   connections, connect_failures, close_calls, live_handlers,
                   outVars, regVars, ctlVars, consVars, llmVars, natsVars,
                   gqlVars>>

\* get_connection has returned or raised: ControlAgent(nats_handler) and
\* start_cleanup_task(), or ControlAgent(None) in the except branch; the
\* global is assigned, the lock released and the instance returned
ControlAgentBuilt(c) ==
    /\ control_pc[c] = "get_connection"
    /\ pc[c] = "done"
    /\ LET connected == caller_result[c] > 0
           starts == connected /\ ~running
       IN  /\ nats_mode' = IF connected THEN "up" ELSE "none"
           /\ running' = (running \/ connected)
           /\ sweep_starts' = IF starts THEN sweep_starts + 1 ELSE sweep_starts
           /\ next_sweep' = IF starts THEN clock + cleanup_interval
                            ELSE next_sweep
    /\ control_agents_built' = control_agents_built + 1
    /\ control_agent' = control_agents_built + 1
    /\ control_result' = [control_result EXCEPT ![c] = control_agents_built + 1]
    /\ control_lock_holder' = 0
    /\ control_pc' = [control_pc EXCEPT ![c] = "done"]
    /\ last_op' = Op("control_agent_built", "")
    /\ UNCHANGED <<control_lock_waiters, control_get_calls, connVars, outVars,
                   active_sessions, session_timestamps, max_sessions,
                   session_ttl, cleanup_interval, cleanup_tasks, clock,
                   published, consVars, llmVars, natsVars, gqlVars>>

\* get_graphql_publisher() returns None: init_graphql_publisher was not called
GraphqlIdle ==
    /\ graphql_mode = "uninitialized"
    /\ graphql_tasks = <<>>
    /\ graphql_sent = ""

\* OutputHandler._publish_to_graphql: nothing without a publisher; the
\* RuntimeError of asyncio.create_task without a running loop is swallowed;
\* otherwise the publish coroutine is queued as a task
QueuesTaskAlways == TRUE
QueuesTask == graphql_mode \in {"no_transport", "up", "down"}
PublishToGraphql(tasks, update_type) ==
    IF QueuesTask THEN Append(tasks, update_type) ELSE tasks

\* mutation_type of each publish_* coroutine
MutationType ==
    [overview |-> "updateOverview", attack |-> "updateAttackAnalysis",
     recommendation |-> "updateRecommendations", timeline |-> "updateTimeline",
     executive |-> "updateExecutiveSummary", full_output |-> "updateFullOutput"]

\* a section update of the output handler: the section is replaced and, for
\* the update types that notify, the notification is queued
SectionCall(name, session_id, od, update_type) ==
    /\ Cardinality(DOMAIN od) <= MaxSections
    /\ update_type # "" /\ QueuesTask => Len(graphql_tasks) < MaxGraphqlTasks
    /\ output_data' = od
    /\ graphql_tasks' = IF update_type = "" THEN graphql_tasks
                        ELSE PublishToGraphql(graphql_tasks, update_type)
    /\ last_op' = OpA(name, session_id, NoArg, "returned")
    /\ UNCHANGED <<output_file, trackers, files, disk_ok, graphql_mode,
                   graphql_sent, notSections>>

UpdateOverviewCall(s, description) ==
    SectionCall("update_overview", s,
                UpdateOverview(output_data, s, description), "overview")

UpdateToolsStatusCall(s, tools) ==
    SectionCall("update_tools_status", s,
                UpdateToolsStatus(output_data, s, tools), "")

UpdateRecommendationCall(s, description, content) ==
    SectionCall("update_recommendation", s,
                UpdateRecommendation(output_data, s, description, content),
                "recommendation")

UpdateChecklistCall(s, title, content) ==
    SectionCall("update_checklist", s,
                UpdateChecklist(output_data, s, title, content), "")

UpdateExecutiveSummaryCall(s, title, content) ==
    SectionCall("update_executive_summary", s,
                UpdateExecutiveSummary(output_data, s, title, content),
                "executive")

UpdateAttackMappingCall(s, tactics) ==
    SectionCall("update_attack_mapping", s,
                UpdateAttackMapping(output_data, s, tactics), "attack")

AddTimelineEntryCall(s, stage, status, error_message) ==
    /\ Len(TimelineData(output_data)) < MaxTimeline
    /\ SectionCall("add_timeline_entry", s,
                   AddTimelineEntry(output_data, s, stage, status, error_message),
                   "timeline")

\* OutputHandler.save_to_file: a failed write is logged and re-raised
SaveToFileCall ==
    /\ disk_ok /\ QueuesTask => Len(graphql_tasks) < MaxGraphqlTasks
    /\ output_file' = IF disk_ok THEN output_data ELSE output_file
    /\ graphql_tasks' = IF disk_ok
                        THEN PublishToGraphql(graphql_tasks, "full_output")
                        ELSE graphql_tasks
    /\ last_op' = OpA("save_to_file", "", NoArg,
                      IF disk_ok THEN "returned" ELSE "raised")
    /\ UNCHANGED <<output_data, trackers, files, disk_ok, graphql_mode,
                   graphql_sent, notSections>>

\* a queued publish_* coroutine runs: GraphQLPublisher._publish_mutation
\* skips without a NATS handler and swallows the error of a failed publish
GraphqlTaskRuns ==
    /\ graphql_tasks # <<>>
    /\ graphql_tasks' = Tail(graphql_tasks)
    /\ graphql_sent' = IF graphql_mode = "up"
                       THEN MutationType[Head(graphql_tasks)] ELSE graphql_sent
    /\ last_op' = OpA("publish_mutation", "", [update_type |-> Head(graphql_tasks)],
                      "returned")
    /\ UNCHANGED <<outVars, graphql_mode, notSections>>

\* ------------------------------------------- JSONFilePersistence, directly
MaxPersistTime == 1

\* a file that open(..., 'w') truncated and json.dump did not finish
Unreadable == [unreadable |-> TRUE]
\* return value None
None == [none |-> TRUE]

\* JSONFilePersistence.load_alert / load_session_data: None when the file
\* does not exist or json.load raises
LoadIgnoringId(fs, category, id) ==
    IF \E k \in DOMAIN fs : k[1] = category /\ fs[k] # Unreadable
    THEN fs[CHOOSE k \in DOMAIN fs : k[1] = category /\ fs[k] # Unreadable]
    ELSE None
Load(fs, category, id) ==
    IF <<category, id>> \notin DOMAIN fs THEN None
    ELSE IF fs[<<category, id>>] = Unreadable THEN None
    ELSE fs[<<category, id>>]

PersistCategories == {"alerts", "sessions"}
PersistIds == {"A1", "A2"}
PersistData == {[severity |-> "high"], [severity |-> "low"]}
\* the write succeeds, fails before the file is opened, or fails in json.dump
\* after open(..., 'w') truncated the file
WriteOutcomes == {"ok", "open_fails", "dump_fails"}

\* save_alert / save_session_data called on the persistence object
PersistSave(category, id, data, outcome) ==
    /\ files' =
         IF outcome = "dump_fails"
         THEN DictSet(files, <<category, id>>, Unreadable)
         ELSE IF category = "alerts"
              THEN SaveAlert(files, id, data, clock, outcome = "ok")
              ELSE SaveSessionData(files, id, data, clock, outcome = "ok")
    /\ last_op' = OpA("save", id,
                      [category |-> category, data |-> data,
                       outcome |-> outcome], "returned")
    /\ UNCHANGED <<output_data, output_file, trackers, disk_ok, regVars,
                   notReg>>

\* --------------------------------------------------------- specifications
\* no consumer
ConsIdle ==
    /\ agent_kind = "none"
    /\ msg_kinds = <<>>
    /\ msg_state = <<>>
    /\ deliveries = <<>>
    /\ agent_running = FALSE
    /\ agent_pc = "exited"
    /\ agent_msg = 0
    /\ downstream = {}

\* no control agent
CtlIdle ==
    /\ nats_mode = "none"
    /\ published = NoPayload
    /\ ConsIdle

\* the session manager as constructed and never used
RegIdle ==
    /\ RegInit
    /\ max_sessions = 1
    /\ session_ttl = 1
    /\ cleanup_interval = 1
    /\ running = FALSE
    /\ next_sweep = 0

TimelineInit ==
    /\ OutInit
    /\ LlmIdle
    /\ NatsIdle
    /\ GraphqlIdle
    /\ ApiIdle
    /\ CtlIdle
    /\ disk_ok \in BOOLEAN
    /\ ConnInit
    /\ RegIdle
    /\ last_op = Op("init", "")

TimelineNext ==
    \/ \E s \in SessionIds : GetTimelineTracker(s)
    \/ \E s \in SessionIds, m \in StageInputs : MarkStageInProgress(s, m)
    \/ \E s \in SessionIds, m \in StageInputs : MarkStageSuccess(s, m)
    \/ \E s \in SessionIds, m \in StageInputs, e \in ErrorTexts :
         MarkStageError(s, m, e)
    \/ \E s \in SessionIds, ok \in BOOLEAN, e \in ErrorTexts :
         CompleteProcessing(s, ok, e)
    \/ \E s \in SessionIds : ClearSession(s)

SpecTimeline == TimelineInit /\ [][TimelineNext]_vars

ConnOnlyInit ==
    /\ OutInit
    /\ LlmIdle
    /\ NatsIdle
    /\ GraphqlIdle
    /\ ApiIdle
    /\ CtlIdle
    /\ disk_ok = TRUE
    /\ ConnInit
    /\ RegIdle
    /\ last_op = Op("init", "")

SpecConn == ConnOnlyInit /\ [][ConnNext]_vars

SpecClose == ConnOnlyInit /\ [][CloseNext]_vars

\* requests calling get_control_agent() while no Control Agent exists yet, the
\* transport being reachable or not, while time passes and the sweep that the
\* initialisation started runs
ControlApiNext ==
    \/ \E c \in Callers : CallGetControlAgent(c)
    \/ \E c \in Callers : ResumeGetControlAgent(c)
    \/ \E c \in Callers : ConnectSucceeds(c)
    \/ \E c \in Callers : ConnectFails(c)
    \/ \E c \in Callers : ControlAgentBuilt(c)
    \/ CleanupLoopSweep
    \/ Tick

SpecControlApi == ConnOnlyInit /\ [][ControlApiNext]_vars

\* the session registry on its own: any interleaving of admissions, touches,
\* removals, the sweep and the eviction tasks
RegOnlyInit ==
    /\ OutInit
    /\ LlmIdle
    /\ NatsIdle
    /\ GraphqlIdle
    /\ ApiIdle
    /\ CtlIdle
    /\ disk_ok = TRUE
    /\ ConnInit
    /\ RegInit
    /\ max_sessions \in 1..MaxCapacity
    /\ session_ttl \in 1..MaxTtl
    /\ cleanup_interval \in 1..MaxInterval
    /\ running \in BOOLEAN
    /\ next_sweep = cleanup_interval
    /\ last_op = Op("init", "")

RegNext ==
    \/ \E s \in RegIds : AddSession(s)
    \/ \E s \in RegIds : UpdateSession(s)
    \/ \E s \in RegIds : RemoveSessionCall(s)
    \/ CleanupLoopSweep
    \/ CleanupOldestTask
    \/ Tick

SpecReg == RegOnlyInit /\ [][RegNext]_vars

\* sessions admitted one after the other, each with a new id, while the
\* eviction tasks that the admissions create run in between
AdmitIds == {SessionId(n) : n \in 1..MaxAdmit}

NextAdmitted ==
    LET tracked == {n \in 1..MaxAdmit : SessionId(n) \in active_sessions}
    IN  IF tracked = {} THEN 1
        ELSE 1 + (CHOOSE n \in tracked : \A m \in tracked : m <= n)

AdmitInit ==
    /\ OutInit
    /\ LlmIdle
    /\ NatsIdle
    /\ GraphqlIdle
    /\ ApiIdle
    /\ CtlIdle
    /\ disk_ok = TRUE
    /\ ConnInit
    /\ RegInit
    /\ max_sessions \in 1..MaxAdmitCapacity
    /\ session_ttl = 1
    /\ cleanup_interval = 1
    /\ running = FALSE
    /\ next_sweep = 0
    /\ last_op = Op("init", "")

AdmitNext ==
    \/ NextAdmitted <= MaxAdmit /\ AddSession(SessionId(NextAdmitted))
    \/ CleanupOldestTask
    \/ Tick

SpecAdmit == AdmitInit /\ [][AdmitNext]_vars

\* the transitions of the legacy control agent
LegacyInit ==
    /\ OutInit
    /\ LlmIdle
    /\ NatsIdle
    /\ GraphqlIdle
    /\ ApiIdle
    /\ CtlIdle
    /\ disk_ok \in BOOLEAN
    /\ ConnInit
    /\ RegIdle
    /\ last_op = Op("init", "")

LegacyNext ==
    \/ \E b \in LegacyBodies, ok \in BOOLEAN : LegacyStartFlow(b, ok)
    \/ \E b \in LegacyBodies, ok \in BOOLEAN : LegacyFinishedType(b, ok)

SpecLegacy == LegacyInit /\ [][LegacyNext]_vars

\* the payload builders applied to every case, with and without an error
MaxCase == 8
PayloadErrors == {"", "boom", "timeout"}

PayloadNext ==
    \E case \in 0..MaxCase, s \in CtlIds, e \in PayloadErrors :
        BuildPayloads(case, s, e)

SpecPayload == ConnOnlyInit /\ [][PayloadNext]_vars

\* a registry whose capacity is above the eviction buffer, filled until the
\* capacity eviction runs, while the first sessions are touched and time
\* passes
MaxLruCapacity == 11
MaxLruTime == 2
LruTouchIds == {SessionId(1), SessionId(2)}

LruInit ==
    /\ OutInit
    /\ LlmIdle
    /\ NatsIdle
    /\ GraphqlIdle
    /\ ApiIdle
    /\ CtlIdle
    /\ disk_ok = TRUE
    /\ ConnInit
    /\ RegInit
    /\ max_sessions \in (EvictBuffer + 1)..MaxLruCapacity
    /\ session_ttl = 1
    /\ cleanup_interval = 1
    /\ running = FALSE
    /\ next_sweep = 0
    /\ last_op = Op("init", "")

LruNext ==
    \/ NextAdmitted <= max_sessions + 1 /\ AddSession(SessionId(NextAdmitted))
    \/ \E s \in LruTouchIds : UpdateSession(s)
    \/ CleanupOldestTask
    \/ Advance(MaxLruTime)

SpecLru == LruInit /\ [][LruNext]_vars

\* the control API with the session manager behind it; the sweep task is
\* started only when the control agent got its NATS connection
CtlBase ==
    /\ OutInit
    /\ LlmIdle
    /\ NatsIdle
    /\ GraphqlIdle
    /\ ApiIdle
    /\ ConsIdle
    /\ disk_ok \in BOOLEAN
    /\ ConnInit
    /\ RegInit
    /\ max_sessions = 1
    /\ session_ttl = 1
    /\ cleanup_interval = 1
    /\ next_sweep = cleanup_interval
    /\ published = NoPayload
    /\ last_op = Op("init", "")

CtlInit ==
    /\ CtlBase
    /\ nats_mode \in {"none", "up", "down"}
    /\ running = FALSE

CtlNext ==
    \/ \E s \in CtlIds, a \in AlertInputs : ApiStartFlow(s, a)
    \/ \E s \in CtlIds, d \in TypeInputs : ApiFinishedType(s, d)
    \/ \E s \in CtlIds, d \in FlowInputs : ApiFinishedFlow(s, d)
    \/ \E s \in CtlIds : RemoveSessionCall(s)
    \/ CleanupOldestTask

SpecCtl == CtlInit /\ [][CtlNext]_vars

\* the three transitions of the control API alone, with and without a transport
TransitionNext ==
    \/ \E s \in CtlIds, a \in AlertInputs : ApiStartFlow(s, a)
    \/ \E s \in CtlIds, d \in TypeInputs : ApiFinishedType(s, d)
    \/ \E s \in CtlIds, d \in FlowInputs : ApiFinishedFlow(s, d)

SpecTransition == CtlInit /\ [][TransitionNext]_vars

\* admission through the control API and the three ways a session is removed
EvictInit ==
    /\ CtlBase
    /\ nats_mode \in {"none", "up", "down"}
    /\ running = (nats_mode # "none")

\* the alert body plays no part in admission or removal
EvictAlerts == {[severity |-> "high"]}

EvictNext ==
    \/ \E s \in CtlIds, a \in EvictAlerts : ApiStartFlow(s, a)
    \/ \E s \in CtlIds : RemoveSessionCall(s)
    \/ CleanupLoopSweep
    \/ CleanupOldestTask
    \/ CtlTick

SpecEvict == EvictInit /\ [][EvictNext]_vars

\* one new session taken through start, stage completion and flow completion
ScenarioNext ==
    \/ \E s \in CtlIds, a \in AlertInputs :
          /\ last_op.name = "init"
          /\ ApiStartFlow(s, a)
    \/ \E d \in TypeInputs :
          /\ last_op.name = "start_flow"
          /\ ApiFinishedType(last_op.sid, d)
    \/ \E d \in FlowInputs :
          /\ last_op.name = "finished_type"
          /\ ApiFinishedFlow(last_op.sid, d)

SpecScenario == CtlInit /\ [][ScenarioNext]_vars

\* one consumer and the messages of its input subject
ConsInit ==
    /\ OutInit
    /\ LlmIdle
    /\ NatsIdle
    /\ GraphqlIdle
    /\ ApiIdle
    /\ disk_ok \in BOOLEAN
    /\ ConnInit
    /\ RegIdle
    /\ nats_mode = "none"
    /\ published = NoPayload
    /\ agent_kind \in AgentKinds
    /\ msg_kinds \in [MsgIds -> MsgKinds]
    /\ msg_state = [m \in MsgIds |-> "pending"]
    /\ deliveries = [m \in MsgIds |-> 0]
    /\ agent_running = TRUE
    /\ agent_pc = "fetch"
    /\ agent_msg = 0
    /\ downstream = {}
    /\ last_op = Op("init", "")

ConsNext ==
    \/ \E m \in MsgIds : AgentFetch(m)
    \/ AgentFetchTimeout
    \/ AgentStop
    \/ PullHandle
    \/ \E r \in AnalysisResults, parsed \in BOOLEAN, pub_ok \in BOOLEAN :
          PullFinish(r, parsed, pub_ok)
    \/ PullAck
    \/ ContextHandle
    \/ \E agent_raises \in BOOLEAN, pub_ok \in BOOLEAN :
          ContextFinish(agent_raises, pub_ok)

SpecConsumer == ConsInit /\ [][ConsNext]_vars

\* the pull consumers with a writable disk on a bus that redelivers every
\* unacknowledged message without limit
\* one kind of message for each way the loop body ends: processed, rejected
\* by json.loads, raising after the parse
ProcessKinds == {"valid", "bad_json", "non_object"}

ProcessInit ==
    /\ ConsInit
    /\ disk_ok
    /\ agent_kind \in {"analysis", "recommendation"}
    /\ \A m \in MsgIds : msg_kinds[m] \in ProcessKinds

\* the publish of a message fails at most on the deliveries before its
\* MaxDeliveries-th: publishing eventually succeeds
PublishEventually(pub_ok) ==
    \/ pub_ok
    \/ agent_msg \in DOMAIN deliveries /\ deliveries[agent_msg] < MaxDeliveries

ProcessStep ==
    \/ \E m \in MsgIds : AgentFetch(m)
    \/ \E m \in MsgIds : AgentFetchAgain(m)
    \/ AgentFetchTimeout
    \/ PullHandle
    \/ \E r \in AnalysisResults, parsed \in BOOLEAN, pub_ok \in BOOLEAN :
          PublishEventually(pub_ok) /\ PullFinish(r, parsed, pub_ok)
    \/ PullAck

ProcessNext ==
    \/ ProcessStep
    \/ AgentStop

\* the event loop runs the consumer's coroutine whenever it can continue:
\* fetch returns a message or times out after 5 s, the awaited calls return
SpecProcessFair ==
    /\ ProcessInit
    /\ [][ProcessNext]_vars
    /\ WF_vars(ProcessStep)

\* every entry path that starts a flow, and the removal of sessions
StartNext ==
    \/ \E s \in CtlIds, a \in AlertInputs : ApiStartFlow(s, a)
    \/ \E s \in CtlIds, a \in AlertInputs, e \in BOOLEAN :
         StartProcessingCompat(s, a, e)
    \/ \E s \in CtlIds : RemoveSessionCall(s)
    \/ CleanupOldestTask

SpecStart == CtlInit /\ [][StartNext]_vars

\* one call of get_llm_completion against an endpoint that may answer
\* anything
LlmInit ==
    /\ OutInit
    /\ LlmIdle
    /\ NatsIdle
    /\ GraphqlIdle
    /\ ApiIdle
    /\ CtlIdle
    /\ disk_ok = TRUE
    /\ ConnInit
    /\ RegIdle
    /\ last_op = Op("init", "")

LlmNext ==
    \/ \E n \in 0..MaxLlmRetries, t \in LlmBaseTimeouts : LlmCall(n, t)
    \/ \E r \in LlmResponses : LlmAttempt(r)
    \/ LlmSleepReturns

SpecLlm == LlmInit /\ [][LlmNext]_vars

\* one NATSHandler: connect, publish and close in any order
NatsInit ==
    /\ OutInit
    /\ LlmIdle
    /\ NatsIdle
    /\ GraphqlIdle
    /\ ApiIdle
    /\ CtlIdle
    /\ disk_ok = TRUE
    /\ ConnInit
    /\ RegIdle
    /\ last_op = Op("init", "")

NatsNext ==
    \/ \E o \in {"connected", "connect_failed", "stream_failed"} : NatsConnect(o)
    \/ \E sub \in NatsSubjects, p \in NatsPayloads, ok \in BOOLEAN :
         NatsPublish(sub, p, ok)
    \/ NatsClose

SpecNats == NatsInit /\ [][NatsNext]_vars

\* handlers and the stream script connecting one after another to one bus
StreamNames == {DefaultStreamName, "model_stream"}
StreamSubjects == {PipelineSubjects, {"agentAI.input"}}
StreamFilters == {"agentAI", "alert"}
BusStates == {"up", "unreachable", "info_fails"}

StreamNext ==
    \/ \E n \in StreamNames, subj \in StreamSubjects, b \in BusStates :
          HandlerConnects(n, subj, b)
    \/ \E n \in StreamNames, f \in StreamFilters,
          b \in {"up", "unreachable"} : CreateJsStream(n, f, b)

SpecStream == NatsInit /\ [][StreamNext]_vars

\* the output handler called directly, with every state of the GraphQL
\* publisher
SectionsInit ==
    /\ output_data = InitializeOutputStructure
    /\ output_file = <<>>
    /\ trackers = {}
    /\ files = <<>>
    /\ disk_ok = TRUE
    /\ graphql_mode \in {"uninitialized", "no_loop", "no_transport", "up", "down"}
    /\ graphql_tasks = <<>>
    /\ graphql_sent = ""
    /\ ApiIdle
    /\ LlmIdle
    /\ NatsIdle
    /\ CtlIdle
    /\ ConnInit
    /\ RegIdle
    /\ last_op = Op("init", "")

SectionTexts == {"text"}
SectionSessions == {SessionId(1), SessionId(2)}
SectionTactics ==
    <<[tacticID |-> "TA0002", tacticName |-> "Execution", confidence |-> 1]>>

SectionsNext ==
    \/ \E s \in SectionSessions, t \in SectionTexts : UpdateOverviewCall(s, t)
    \/ \E s \in SectionSessions : UpdateToolsStatusCall(s, ToolsData)
    \/ \E s \in SectionSessions, t \in SectionTexts : UpdateRecommendationCall(s, t, t)
    \/ \E s \in SectionSessions, t \in SectionTexts : UpdateChecklistCall(s, t, t)
    \/ \E s \in SectionSessions, t \in SectionTexts :
         UpdateExecutiveSummaryCall(s, t, t)
    \/ \E s \in SectionSessions : UpdateAttackMappingCall(s, SectionTactics)
    \/ \E s \in SectionSessions :
         AddTimelineEntryCall(s, TimelineStage.ANALYSIS_AGENT,
                              TimelineStatus.SUCCESS, "")
    \/ GraphqlTaskRuns

SpecSections == SectionsInit /\ [][SectionsNext]_vars

\* the same with save_to_file and a disk that may refuse the write
SaveInit ==
    /\ output_data = InitializeOutputStructure
    /\ output_file = <<>>
    /\ trackers = {}
    /\ files = <<>>
    /\ disk_ok \in BOOLEAN
    /\ graphql_mode \in {"uninitialized", "up"}
    /\ graphql_tasks = <<>>
    /\ graphql_sent = ""
    /\ ApiIdle
    /\ LlmIdle
    /\ NatsIdle
    /\ CtlIdle
    /\ ConnInit
    /\ RegIdle
    /\ last_op = Op("init", "")

SaveNext ==
    \/ SectionsNext
    \/ SaveToFileCall

SpecSave == SaveInit /\ [][SaveNext]_vars

\* saves on the persistence object while time passes
PersistInit ==
    /\ OutInit
    /\ LlmIdle
    /\ NatsIdle
    /\ GraphqlIdle
    /\ ApiIdle
    /\ CtlIdle
    /\ disk_ok = TRUE
    /\ ConnInit
    /\ RegIdle
    /\ last_op = Op("init", "")

PersistTick == Advance(MaxPersistTime)

PersistNext ==
    \/ \E c \in PersistCategories, i \in PersistIds, d \in PersistData,
          o \in WriteOutcomes : PersistSave(c, i, d, o)
    \/ PersistTick

SpecPersist == PersistInit /\ [][PersistNext]_vars

\* ------------------------------------------------------------------ claims
IsPrefix(a, b) == Len(a) <= Len(b) /\ SubSeq(b, 1, Len(a)) = a

MarkOps == {"mark_stage_in_progress", "mark_stage_success",
            "mark_stage_error", "complete_processing"}

\* C1: a markSuccess / markError / markInProgress / completeProcessing call
\* keeps every entry already in the timeline, in place and unaltered, and
\* makes the entry count grow (by the one entry it appends).
C1_AppendOnly ==
    [][last_op'.name \in MarkOps =>
          /\ IsPrefix(TimelineData(output_data), TimelineData(output_data'))
          /\ Len(TimelineData(output_data')) = Len(TimelineData(output_data)) + 1]_vars

\* C2: as long as no connect() for a key has raised and the key was never
\* closed, connect() was invoked at most once for it, and every caller whose
\* get_connection for that key has returned holds the one registered handler
\* (so connect() was invoked exactly once).
C2_SingleConnect ==
    \A k \in ConnKeys :
        (connect_failures[k] = 0 /\ close_calls[k] = 0) =>
            /\ connect_calls[k] <= 1
            /\ \A c \in Callers :
                 (pc[c] = "done" /\ caller_key[c] = k /\ caller_result[c] # 0) =>
                     /\ connect_calls[k] = 1
                     /\ k \in DOMAIN connections
                     /\ caller_result[c] = connections[k]

\* two callers of the same key have returned with the same handler, the
\* second after waiting on the lock while the first was connecting
C2_Witness ==
    /\ caller_key[1] = "x" /\ caller_key[2] = "x"
    /\ pc[1] = "done" /\ pc[2] = "done"
    /\ caller_result[1] > 0 /\ caller_result[1] = caller_result[2]
    /\ last_op.name = "get_connection_resumed"
    /\ connect_calls["x"] = 1
    /\ connect_failures["x"] = 0 /\ close_calls["x"] = 0

\* C3: for every capacity, once the eviction tasks created by the admissions
\* have run, the number of tracked session ids is at most the capacity.
C3_EvictionBounds ==
    cleanup_tasks = 0 => Cardinality(active_sessions) <= max_sessions

\* capacity + 1 sessions were admitted and the eviction left one of them
C3_Witness ==
    /\ last_op.name = "cleanup_oldest_sessions"
    /\ Cardinality(last_op.removed) = 11
    /\ cleanup_tasks = 0
    /\ max_sessions = 11
    /\ active_sessions = {SessionId(12)}

\* C5: with the sweep running, a session last touched at time T is no longer
\* tracked once the time is past T + ttl + one sweep interval.
C5_TtlExpiry ==
    running =>
        \A i \in 1..Len(session_timestamps) :
            clock <= session_timestamps[i].ts + session_ttl + cleanup_interval

\* a sweep has just removed an expired session and kept a fresher one
C5_Witness ==
    /\ running
    /\ last_op.name = "cleanup_expired_sessions"
    /\ last_op.removed # {}
    /\ active_sessions # {}
    /\ session_ttl = 2

C1_Witness ==
    /\ last_op.name = "mark_stage_error"
    /\ Len(TimelineData(output_data)) = 3
    /\ TimelineData(output_data)[1].stage = "Received Alert"
    /\ TimelineData(output_data)[2].status = "success"
    /\ TimelineData(output_data)[3].status = "error"
CountEntries(tl, stage, status) ==
    Cardinality({i \in 1..Len(tl) : tl[i].stage = stage /\ tl[i].status = status})

\* the attack section, or the empty document when there is none
AttackSection(od) == IF KeyAttack \in DOMAIN od THEN <<od[KeyAttack]>> ELSE <<>>

\* C6: when stageCompleted("Type Agent") is delivered a second time to the
\* same session with the same data, both deliveries succeed, the timeline then
\* holds the entry of the first delivery plus one more "Type Agent" success
\* entry, and the attack section is what the first delivery left.
C6_IdempotentRedelivery ==
    [][(/\ last_op'.name = "finished_type"
        /\ last_op'.redelivered
        /\ ~last_op.redelivered
        /\ disk_ok) =>
          /\ last_op.result = "success" /\ last_op'.result = "success"
          /\ CountEntries(TimelineData(output_data), "Type Agent", "success") >= 1
          /\ CountEntries(TimelineData(output_data'), "Type Agent", "success")
               = CountEntries(TimelineData(output_data), "Type Agent", "success") + 1
          /\ IsPrefix(TimelineData(output_data), TimelineData(output_data'))
          /\ AttackSection(output_data') = AttackSection(output_data)]_vars

\* C7: after flowCompleted({status: "error", message: "boom"}) the timeline's
\* last entry has status error and errorMessage "boom", and is not a
\* "Process Complete" / success entry.
C7_ErrorShortCircuit ==
    (/\ last_op.name = "finished_flow"
     /\ last_op.arg = FlowError) =>
        LET tl == TimelineData(output_data)
        IN  /\ Len(tl) > 0
            /\ tl[Len(tl)].status = "error"
            /\ tl[Len(tl)].errorMessage = "boom"
            /\ ~(tl[Len(tl)].stage = "Process Complete"
                 /\ tl[Len(tl)].status = "success")

\* stage and status of every entry of a timeline
StageStatus(tl) == [i \in 1..Len(tl) |-> <<tl[i].stage, tl[i].status>>]

\* C8: for a new session, start({alert_id: "A1"}) followed by
\* stageCompleted("Type Agent", {technique_name: "T1055"}) leaves the timeline
\* exactly [Received Alert: success, Type Agent: success]; a following
\* flowCompleted({status: "success", report: "ok"}) appends exactly
\* [Recommendation: success, Process Complete: success] and leaves the
\* session's recommendation section non-empty.
C8_Scenario ==
    [][/\ (/\ last_op.name = "start_flow"
           /\ last_op.arg = [alert_id |-> "A1"]
           /\ last_op'.name = "finished_type"
           /\ last_op'.arg = [technique_name |-> "T1055"]
           /\ disk_ok) =>
             StageStatus(TimelineData(output_data')) =
                 <<<<"Received Alert", "success">>, <<"Type Agent", "success">>>>
       /\ (/\ last_op.name = "finished_type"
           /\ last_op.arg = [technique_name |-> "T1055"]
           /\ last_op'.name = "finished_flow"
           /\ last_op'.arg = FlowSuccess
           /\ disk_ok) =>
             /\ StageStatus(TimelineData(output_data')) =
                    StageStatus(TimelineData(output_data))
                      \o <<<<"Recommendation", "success">>,
                           <<"Process Complete", "success">>>>
             /\ KeyRecommendation \in DOMAIN DocumentOf(output_data', last_op'.sid)
             /\ DocumentOf(output_data', last_op'.sid)[KeyRecommendation] # <<>>]_vars

\* C9: stageCompleted on well-formed input returns success and leaves the
\* "Type Agent" stage as the last timeline entry, and flowCompleted on
\* well-formed input that reports no upstream error returns success, when
\* output.json can be written.
C9_SharedStageSet ==
    /\ (last_op.name = "finished_type" /\ disk_ok) =>
          /\ last_op.result = "success"
          /\ Len(TimelineData(output_data)) > 0
          /\ TimelineData(output_data)[Len(TimelineData(output_data))].stage
               = "Type Agent"
    /\ (/\ last_op.name = "finished_flow"
        /\ last_op.arg \in FlowInputs \ {FlowError}
        /\ disk_ok) =>
          last_op.result = "success"
\* C10: once a consumer is done with a delivery of a message, the message is
\* acknowledged if it could not be parsed, and not acknowledged if it was
\* parsed and its processing raised an exception.
C10_AckProtocol ==
    last_op.name = "handle_message" =>
        /\ ~last_op.arg.parsed => msg_state[last_op.arg.msg] = "acked"
        /\ (last_op.arg.parsed /\ last_op.arg.raised) =>
              msg_state[last_op.arg.msg] # "acked"
\* C11: in the pull loops a parseable message is acknowledged, or about to be
\* acknowledged, only when the payload derived from it has been published
\* downstream.
C11_AckAfterPublish ==
    agent_kind \in {"analysis", "recommendation"} =>
        /\ \A m \in DOMAIN msg_state :
              (Parses(msg_kinds[m]) /\ msg_state[m] = "acked") => m \in downstream
        /\ agent_pc = "ack" => agent_msg \in downstream

\* a message whose first delivery failed at the publish was redelivered,
\* published and then acknowledged
C11_Witness ==
    /\ agent_kind = "analysis"
    /\ \E m \in DOMAIN msg_state :
         /\ msg_kinds[m] = "valid"
         /\ deliveries[m] = 2
         /\ msg_state[m] = "acked"
         /\ m \in downstream
         /\ CountEntries(TimelineData(output_data), "Analysis Agent", "error") = 1
\* C12: a control API call for one session leaves the sections and the
\* timeline entries of every other session as they were.
C12_CrossSessionIndependence ==
    [][last_op'.name \in {"start_flow", "finished_type", "finished_flow"} =>
          \A a \in CtlIds \ {last_op'.sid} :
              DocumentOf(output_data', a) = DocumentOf(output_data, a)]_vars
\* C13: when a control API transition returns a failure, the timeline holds
\* an error entry, the document on disk is the document in memory (when the
\* disk can be written) and an error event for the session was published
\* (when the bus is up).
C13_NoSilentlyStaleTimeline ==
    (/\ last_op.name \in {"start_flow", "finished_type", "finished_flow"}
     /\ last_op.result # "success") =>
        /\ \E i \in 1..Len(TimelineData(output_data)) :
              TimelineData(output_data)[i].status = "error"
        /\ disk_ok => output_file = output_data
        /\ nats_mode = "up" =>
              /\ published.alert_id = last_op.sid
              /\ \E i \in 1..Len(published.data) :
                    published.data[i].status = "error"
\* C14: after mark_stage_success the tracker's is_stage_completed is true for
\* the recorded stage; after mark_stage_error has_errors is true and
\* get_error_stages holds the stage; and after either the tracker's current
\* timeline is the recorded sequence of entries.
C14_QueriesReflectEntries ==
    [][/\ last_op'.name = "mark_stage_success" =>
             IsStageCompleted(output_data', last_op'.sid,
                 TimelineData(output_data')[Len(TimelineData(output_data'))].stage)
       /\ last_op'.name = "mark_stage_error" =>
             /\ HasErrors(output_data', last_op'.sid)
             /\ TimelineData(output_data')[Len(TimelineData(output_data'))].stage
                   \in GetErrorStages(output_data', last_op'.sid)
       /\ last_op'.name \in {"mark_stage_success", "mark_stage_error"} =>
             GetCurrentTimeline(output_data', last_op'.sid)
                 = TimelineData(output_data')]_vars
\* C15: after a start that returned success, on either entry path, the
\* session id is tracked by the session registry.
C15_StartAdmits ==
    (/\ last_op.name \in {"start_flow", "start_processing_compat"}
     /\ last_op.result = "success") => last_op.sid \in active_sessions
\* the timeline the document holds under a session id
SessionTimeline(od, session_id) ==
    IF KeyTimeline \in DOMAIN DocumentOf(od, session_id)
    THEN DocumentOf(od, session_id)[KeyTimeline] ELSE <<>>

\* a timeline holding one entry, Received Alert / success
ReceivedAlertOnly ==
    <<[stage |-> "Received Alert", status |-> "success", errorMessage |-> ""]>>

\* C16: get_timeline_tracker for an id without a tracker leaves that
\* session's timeline holding exactly one entry, Received Alert / success;
\* for an id that has a tracker it changes neither the document nor the
\* tracker cache.
C16_InitialTrackerState ==
    [][last_op'.name = "get_timeline_tracker" =>
          IF last_op'.sid \notin trackers
          THEN /\ last_op'.sid \in trackers'
               /\ SessionTimeline(output_data', last_op'.sid)
                    = ReceivedAlertOnly
          ELSE /\ output_data' = output_data
               /\ trackers' = trackers]_vars
\* the fixed stage order of the workflow
StageOrder ==
    <<"Received Alert", "Type Agent", "Analyze Root Cause", "Triage Status",
      "Action Taken", "Tool Status", "Recommendation", "Process Complete">>
StageRank(stage_name) ==
    IF \E i \in 1..Len(StageOrder) : StageOrder[i] = stage_name
    THEN CHOOSE i \in 1..Len(StageOrder) : StageOrder[i] = stage_name
    ELSE 0

C19_RegistryMutualExclusion ==
    [][/\ active_sessions' = TimestampKeys(session_timestamps')
       /\ last_op'.name = "cleanup_expired_sessions" =>
             \A i \in 1..Len(session_timestamps) :
                 session_timestamps[i].sid \in last_op'.removed
                     => clock - session_timestamps[i].ts > session_ttl]_vars
C19_Witness ==
    /\ last_op.name = "cleanup_expired_sessions"
    /\ last_op.removed = {SessionId(2)}
    /\ active_sessions = {SessionId(1)}
    /\ session_timestamps = <<[sid |-> SessionId(1), ts |-> clock]>>
    /\ clock > session_ttl
\* C20: a call whose every request was answered 500 never makes more than
\* max_retries + 1 requests, has not raised before that many were made, and
\* after that many has raised the error of the last request; with
\* max_retries = 3 that is 4 requests.
C20_RetryBound ==
    (\A i \in 1..Len(llm_responses) : llm_responses[i] = "500") =>
        /\ Len(llm_responses) <= llm_max_retries + 1
        /\ llm_pc = "raised" => Len(llm_responses) = llm_max_retries + 1
        /\ (llm_pc # "idle" /\ Len(llm_responses) = llm_max_retries + 1) =>
              /\ llm_pc = "raised"
              /\ llm_last_exception = "Ollama API error: 500"
C20_Witness ==
    /\ llm_pc = "raised"
    /\ llm_max_retries = 3
    /\ llm_responses = <<"500", "500", "500", "500">>
    /\ llm_last_exception = "Ollama API error: 500"
\* C21: a request answered with a 4xx status is the last request of the call,
\* whatever max_retries is, and the call has raised the error of that answer.
C21_ClientErrorsNotRetried ==
    \A i \in 1..Len(llm_responses) :
        llm_responses[i] = "404" =>
            /\ i = Len(llm_responses)
            /\ llm_pc = "raised"
            /\ llm_last_exception = "Ollama API error: " \o llm_responses[i]
C21_Witness ==
    /\ llm_pc = "raised"
    /\ llm_max_retries = 3
    /\ llm_responses = <<"500", "404">>
    /\ llm_last_exception = "Ollama API error: 404"
\* C22: the sleep that follows failed attempt k lasts min(2^k, 10) seconds,
\* never more than 10, and is entered only when another attempt follows;
\* the request of attempt k is made with a total timeout of the base timeout
\* plus 20 k.
C22_BackoffAndTimeout ==
    /\ llm_pc = "sleep" =>
          /\ llm_wait = (IF 2^llm_attempt < 10 THEN 2^llm_attempt ELSE 10)
          /\ llm_wait <= 10
          /\ llm_attempt < llm_max_retries
    /\ llm_pc \in {"raised", "returned"} => llm_wait = 0
    /\ Len(llm_responses) > 0 =>
          llm_timeout = llm_base_timeout + 20 * (Len(llm_responses) - 1)
C22_Witness ==
    /\ llm_pc = "sleep"
    /\ llm_attempt = 4
    /\ llm_wait = 10
    /\ llm_timeout = 140
    /\ llm_base_timeout = 60
\* C23: a publish call that returns normally has appended the JSON encoding
\* of its payload, under its subject, to what the bus received; every other
\* publish call (before connect included) raises and the bus received
\* nothing from it.
C23_PublishNeverDropsSilently ==
    [][last_op'.name = "publish" =>
          IF last_op'.result = "returned"
          THEN /\ Len(nats_sent') = Len(nats_sent) + 1
               /\ nats_sent'[Len(nats_sent')].subject = last_op'.sid
               /\ nats_sent'[Len(nats_sent')].data
                    = (IF "alert_id" \in DOMAIN last_op'.arg
                       THEN "{\"alert_id\": \"A1\"}"
                       ELSE "{\"status\": \"error\"}")
          ELSE /\ nats_sent' = nats_sent
               /\ nats_js = FALSE =>
                     last_op'.result
                       = "raised: NATS not connected. Call connect() first."]_vars
C23_Witness ==
    /\ last_op.name = "publish"
    /\ last_op.result = "raised: publish failed"
    /\ nats_nc = "closed"
    /\ Len(nats_sent) = 1
    /\ nats_sent[1].subject = "agentAI.analysis"
    /\ nats_sent[1].data = "{\"alert_id\": \"A1\"}"
\* the section each update call writes
SectionKeyOf ==
    [update_overview |-> KeyOverview, update_tools_status |-> KeyTools,
     update_recommendation |-> KeyRecommendation,
     update_checklist |-> KeyChecklist,
     update_executive_summary |-> KeyExecutive,
     update_attack_mapping |-> KeyAttack, add_timeline_entry |-> KeyTimeline]

\* C24: in every state of the GraphQL publisher (uninitialized, no running
\* loop, no transport, transport up, transport failing) a section update or
\* timeline append returns normally with the section written under the
\* caller's data, publishes nothing itself, and queues nothing when there is
\* no publisher; a queued notification that fails leaves the document alone.
C24_NotificationNeverFailsUpdate ==
    [][/\ last_op'.name \in DOMAIN SectionKeyOf =>
             /\ last_op'.result = "returned"
             /\ SectionKeyOf[last_op'.name] \in DOMAIN output_data'
             /\ last_op'.name # "add_timeline_entry" =>
                   output_data'[SectionKeyOf[last_op'.name]].id = last_op'.sid
             /\ last_op'.name = "add_timeline_entry" =>
                   Len(TimelineData(output_data'))
                       = Len(TimelineData(output_data)) + 1
             /\ graphql_sent' = graphql_sent
             /\ graphql_mode \in {"uninitialized", "no_loop"} =>
                   graphql_tasks' = graphql_tasks
       /\ last_op'.name = "publish_mutation" => output_data' = output_data]_vars
C24_Witness ==
    /\ graphql_mode = "down"
    /\ last_op.name = "publish_mutation"
    /\ last_op.arg = [update_type |-> "timeline"]
    /\ Len(TimelineData(output_data)) = 1
    /\ graphql_sent = ""

\* C25: when a section update or timeline append of the output handler
\* returns, output.json holds the in-memory document.
C25_EverySectionUpdatePersisted ==
    (last_op.name \in DOMAIN SectionKeyOf /\ disk_ok) =>
        output_file = output_data
\* C26: load of a (category, id) that has no file returns nothing; after a
\* save whose write succeeded load returns that save's data in an envelope
\* with the id and the time of the save; and no save, successful or not,
\* changes what load returns for another (category, id).
C26_LastWriterWins ==
    [][/\ \A c \in PersistCategories, i \in PersistIds :
             <<c, i>> \notin DOMAIN files => Load(files, c, i) = [none |-> TRUE]
       /\ last_op'.name = "save" =>
             /\ last_op'.arg.outcome = "ok" =>
                   Load(files', last_op'.arg.category, last_op'.sid)
                     = [id |-> last_op'.sid, timestamp |-> clock,
                        data |-> last_op'.arg.data]
             /\ \A c \in PersistCategories, i \in PersistIds :
                   <<c, i>> # <<last_op'.arg.category, last_op'.sid>> =>
                       Load(files', c, i) = Load(files, c, i)]_vars
C26_Witness ==
    /\ last_op.name = "save"
    /\ last_op.arg.category = "alerts"
    /\ last_op.arg.data = [severity |-> "low"]
    /\ last_op.arg.outcome = "ok"
    /\ last_op.sid = "A1"
    /\ clock = 1
    /\ "id" \in DOMAIN Load(files, "alerts", "A1")
    /\ Load(files, "alerts", "A1").id = "A1"
    /\ Load(files, "alerts", "A1").timestamp = 1
    /\ Load(files, "alerts", "A1").data = [severity |-> "low"]
    /\ "id" \in DOMAIN Load(files, "sessions", "A1")
    /\ Load(files, "sessions", "A1").id = "A1"
    /\ Load(files, "sessions", "A1").timestamp = 0
    /\ Load(files, "sessions", "A1").data = [severity |-> "high"]
    /\ Load(files, "alerts", "A2") = [none |-> TRUE]
\* C27: when close_connection(key) returns, key is not registered and the
\* handler it held is registered nowhere; when close_all_connections returns
\* the registry is empty, also when some closes failed to drain; whenever no
\* manager operation is in progress every registered key owes its handler to
\* one connect() that follows the last close of the key (connects that
\* succeeded = closes + 1) and an unregistered key has none outstanding; and
\* at no time is a second handler being connected for a key that holds one,
\* nor one handler registered under two keys.
C27_CloseThenFresh ==
    [][/\ \A c \in Callers :
             pc[c] = "closing" /\ pc'[c] = "done" =>
                /\ caller_key[c] \notin DOMAIN connections'
                /\ \A k \in DOMAIN connections' :
                      connections'[k] # connections[caller_key[c]]
       /\ \A c \in Callers :
             pc[c] = "closing_all" /\ pc'[c] = "done" => connections' = <<>>
       /\ lock_holder' = 0 =>
             \A k \in ConnKeys :
                connect_calls'[k] - connect_failures'[k] - close_calls'[k]
                  = IF k \in DOMAIN connections' THEN 1 ELSE 0
       /\ \A c \in Callers :
             pc'[c] = "connecting" =>
                /\ caller_key'[c] \notin DOMAIN connections'
                /\ \A k \in DOMAIN connections' :
                      connections'[k] # caller_handler'[c]
                /\ \A c2 \in Callers \ {c} : pc'[c2] # "connecting"
       /\ \A k1, k2 \in DOMAIN connections' :
             connections'[k1] = connections'[k2] => k1 = k2]_vars
C27_Witness ==
    /\ last_op.name = "close_all_done"
    /\ last_op.removed = {"x", "y"}
    /\ connections = <<>>
    /\ live_handlers = {1}
    /\ close_calls = [k \in ConnKeys |-> 1]
    /\ lock_holder = 0
\* C28: once stop() was called on a pull consumer its loop eventually exits,
\* and when the loop has exited no message is left in the middle of its
\* processing: every message that was fetched was handled to its end,
\* acknowledged or left for redelivery.
C28_GracefulStop ==
    /\ (agent_kind \in {"analysis", "recommendation"} /\ ~agent_running)
         ~> (agent_pc = "exited")
    /\ [](agent_pc = "exited" =>
            /\ agent_msg = 0
            /\ \A m \in DOMAIN msg_state : msg_state[m] # "inflight")
\* the loop exited right after it finished a message that was published and
\* acknowledged while the stop was already requested
C28_Witness ==
    /\ agent_kind = "recommendation"
    /\ ~agent_running
    /\ agent_pc = "exited"
    /\ last_op.name = "handle_message"
    /\ last_op.arg.parsed /\ ~last_op.arg.raised
    /\ msg_state[last_op.arg.msg] = "acked"
\* C29: with a writable disk, unlimited redelivery, publishes that eventually
\* succeed and a fairly scheduled loop that is not stopped, every message
\* whose bytes parse as JSON is eventually acknowledged by the analysis or
\* recommendation consumer.
C29_EventualProcessing ==
    \A m \in MsgIds :
        (Parses(msg_kinds[m]) /\ msg_state[m] = "pending")
          ~> (msg_state[m] = "acked" \/ ~agent_running)
\* C30: when start_flow succeeds for a session id that was started before and
\* has since been removed from the registry, the sections and the timeline
\* the in-memory document then holds under the id are those the same call
\* would have produced had the id never been seen, and every artifact that
\* was persisted before is still there.
C30_ReadmissionStartsFresh ==
    [][(/\ last_op'.name = "start_flow"
        /\ last_op'.result = "success"
        /\ last_op'.sid \in trackers
        /\ last_op'.sid \notin active_sessions) =>
          /\ DocumentOf(output_data', last_op'.sid)
               = DocumentOf(StartFlow([Store EXCEPT
                                         !.trackers = @ \ {last_op'.sid}],
                                      last_op'.arg, last_op'.sid).st.od,
                            last_op'.sid)
          /\ \A k \in DOMAIN files : k \in DOMAIN files']_vars
\* C31: when a handler's connect() finds the bus up and a stream of the
\* configured name on it, connect() returns and the streams of the bus are
\* what they were; whoever connects or runs the stream script, a stream
\* that exists keeps its configuration and is never removed, and a connect()
\* that returned leaves a stream of the handler's name.
C31_StreamCreationIdempotent ==
    [][/\ (/\ last_op'.name = "connect"
           /\ last_op'.arg.bus = "up"
           /\ last_op'.sid \in DOMAIN bus_streams) =>
             /\ last_op'.result = "returned"
             /\ bus_streams' = bus_streams
       /\ \A n \in DOMAIN bus_streams :
             n \in DOMAIN bus_streams' /\ bus_streams'[n] = bus_streams[n]
       /\ (last_op'.name = "connect" /\ last_op'.result = "returned") =>
             last_op'.sid \in DOMAIN bus_streams']_vars
\* a second handler with other subjects connected to a bus that holds the
\* stream the first handler created
C31_Witness ==
    /\ last_op.name = "connect"
    /\ last_op.redelivered = FALSE
    /\ last_op.arg.subjects = {"agentAI.input"}
    /\ last_op.arg.bus = "up"
    /\ last_op.sid = DefaultStreamName
    /\ last_op.result = "returned"
    /\ DOMAIN bus_streams = {DefaultStreamName}
    /\ bus_streams[DefaultStreamName] = HandlerStreamConfig(PipelineSubjects)
\* C32: when the capacity eviction removes sessions, the timestamp of every
\* removed session is no later than the timestamp of every session that
\* stays tracked; and touching a tracked session sets its timestamp to the
\* time of the touch.
C32_OldestFirstEviction ==
    [][/\ last_op'.name = "cleanup_oldest_sessions" =>
             \A r \in last_op'.removed, k \in active_sessions' :
                 TimestampOf(session_timestamps, r)
                   <= TimestampOf(session_timestamps', k)
       /\ (last_op'.name = "update_session"
           /\ last_op'.sid \in active_sessions) =>
             TimestampOf(session_timestamps', last_op'.sid) = clock]_vars
\* the session admitted first was touched after every other admission and
\* is the one the eviction kept
C32_Witness ==
    /\ last_op.name = "cleanup_oldest_sessions"
    /\ Cardinality(last_op.removed) = 11
    /\ active_sessions = {"S1"}
    /\ TimestampOf(session_timestamps, "S1") = 2
\* C33: for a case n in 1..7 the data of the payload are the first n stages
\* in the fixed order; without an error text all are success with an empty
\* errorMessage, with one the first n-1 are success and the n-th is error
\* with that text; for case 0 the data are empty; and the builder of
\* ControlAgent/control/timeline.py returns the same data.
C33_PayloadShape ==
    last_op.name = "build_timeline_payload" =>
        LET n == last_op.arg.case
            e == last_op.arg.error
            data == published.data
            order == <<"Received Alert", "Type Agent", "Analyze Root Cause",
                       "Triage Status", "Action Taken", "Tool Status",
                       "Recommendation">>
        IN  /\ n = 0 => data = <<>>
            /\ n \in 1..7 =>
                 /\ Len(data) = n
                 /\ \A i \in 1..n :
                      /\ data[i].stage = order[i]
                      /\ data[i].status =
                           IF i = n /\ e # "" THEN "error" ELSE "success"
                      /\ data[i].errorMessage =
                           IF i = n /\ e # "" THEN e ELSE ""
            /\ n \in 0..7 => last_op.arg.legacy.updated.data = data
\* case 3 with an error text
C33_Witness ==
    /\ last_op.name = "build_timeline_payload"
    /\ last_op.arg.case = 3
    /\ last_op.arg.error = "boom"
    /\ Len(published.data) = 3
    /\ published.data[2].status = "success"
    /\ published.data[3].stage = "Analyze Root Cause"
    /\ published.data[3].status = "error"
    /\ published.data[3].errorMessage = "boom"
\* C34: the progress event a successful stageCompleted for Type Agent
\* publishes lists the stages up to and including Type Agent and no stage
\* after it.
C34_PublishedProgressSequential ==
    [][(/\ last_op'.name = "legacy_finished_type"
        /\ last_op'.result = "success") =>
          /\ published'.data # <<>>
          /\ published'.data[Len(published'.data)].stage = "Type Agent"]_vars
\* C35: a start, stageCompleted or flowCompleted made by an agent without a
\* transport, or whose publish fails, returns the result and leaves the
\* document (timeline entries included), output.json and the tracker cache
\* that the same call leaves when the publish succeeds.
C35_PublishNotOnSuccessPath ==
    [][/\ last_op'.name = "start_flow" =>
            LET r == StartFlowWith("up", Store, last_op'.arg, last_op'.sid)
            IN  /\ last_op'.result = r.result
                /\ output_data' = r.st.od
                /\ output_file' = r.st.file
                /\ trackers' = r.st.trackers
       /\ last_op'.name = "finished_type" =>
            LET r == FinishedTypeWith("up", Store, last_op'.arg, last_op'.sid)
            IN  /\ last_op'.result = r.result
                /\ output_data' = r.st.od
                /\ output_file' = r.st.file
                /\ trackers' = r.st.trackers
       /\ last_op'.name = "finished_flow" =>
            LET r == FinishedFlowWith("up", Store, last_op'.arg, last_op'.sid)
            IN  /\ last_op'.result = r.result
                /\ output_data' = r.st.od
                /\ output_file' = r.st.file
                /\ trackers' = r.st.trackers]_vars

\* a start whose publish failed: success, the entry recorded, nothing published
C35_Witness ==
    /\ nats_mode = "down"
    /\ last_op.name = "start_flow"
    /\ last_op.result = "success"
    /\ TimelineData(output_data) # <<>>
    /\ TimelineData(output_data)[Len(TimelineData(output_data))].stage
         = "Received Alert"
    /\ published = NoPayload

\* C36: for every capacity, when the eviction task created by an admission
\* that pushed the registry over capacity runs, the session just admitted is
\* still tracked afterwards.
C36_AdmittedSessionSurvives ==
    [][(/\ last_op.name = "add_session"
        /\ Cardinality(active_sessions) > max_sessions
        /\ last_op'.name = "cleanup_oldest_sessions") =>
          last_op.sid \in active_sessions']_vars

\* C37: after every registry operation (admission, touch, removal, TTL sweep,
\* capacity eviction) the tracked ids are exactly the keys of the timestamp
\* map, and a touch of an id that is not tracked changes neither of the two.
C37_RegistryMapConsistency ==
    [][/\ active_sessions' = TimestampKeys(session_timestamps')
       /\ (/\ last_op'.name = "update_session"
           /\ last_op'.sid \notin active_sessions) =>
              /\ active_sessions' = active_sessions
              /\ session_timestamps' = session_timestamps]_vars

\* an id that is not tracked was touched while another one is tracked
C37_Witness ==
    /\ last_op.name = "update_session"
    /\ last_op.sid \notin active_sessions
    /\ active_sessions # {}
    /\ active_sessions = TimestampKeys(session_timestamps)

\* C38: when connect() raises inside get_connection(key, cfg) the caller gets
\* the error, no handler is stored under key, the registry is as it was and
\* the lock is free; and a get_connection that returns a handler returns one
\* whose connect() succeeded, while a get_connection that finds no handler
\* under its key starts a new connect().
C38_FailedConnectLeavesRegistry ==
    [][/\ last_op'.name = "connect_failed" =>
            \A c \in Callers :
                (pc[c] = "connecting" /\ pc'[c] = "done") =>
                    /\ caller_result'[c] = -1
                    /\ caller_key[c] \notin DOMAIN connections'
                    /\ connections' = connections
                    /\ lock_holder' = 0
       /\ last_op'.name \in {"get_connection", "get_connection_resumed"} =>
            \A c \in Callers :
                /\ (pc[c] # "done" /\ pc'[c] = "done") =>
                       caller_result'[c] \in live_handlers
                /\ (/\ pc[c] # pc'[c]
                    /\ pc'[c] # "wait_get"
                    /\ caller_key'[c] \notin DOMAIN connections) =>
                       /\ pc'[c] = "connecting"
                       /\ connect_calls'[caller_key'[c]]
                            = connect_calls[caller_key'[c]] + 1]_vars

\* after a failed connect() for key "x" a later get_connection("x") connected
C38_Witness ==
    /\ connect_failures["x"] = 1
    /\ connect_calls["x"] = 2
    /\ "x" \in DOMAIN connections
    /\ connections["x"] \in live_handlers
    /\ lock_holder = 0
    /\ \E c \in Callers : pc[c] = "done" /\ caller_result[c] = connections["x"]

\* C39: however the requests calling get_control_agent() interleave, at most
\* one ControlAgent is constructed, with at most one get_connection call and
\* one sweep task started, and every request that has returned holds that one
\* instance, whether the transport was reached or not.
C39_SingleOrchestrator ==
    /\ control_agents_built <= 1
    /\ control_get_calls <= 1
    /\ sweep_starts <= 1
    /\ \A c \in Callers :
          control_pc[c] = "done" =>
              /\ control_agents_built = 1
              /\ control_result[c] = 1
              /\ control_agent = 1

\* two requests entered before an agent existed, the transport could not be
\* reached, and both hold the one agent created without it
C39_Witness ==
    /\ connect_failures[ControlAgentKey] = 1
    /\ control_agents_built = 1
    /\ nats_mode = "none"
    /\ sweep_starts = 0
    /\ last_op.name = "get_control_agent_resumed"
    /\ \A c \in Callers : control_pc[c] = "done" /\ control_result[c] = 1

====
